---- MODULE Spec2Model ----
(***************************************************************************)
(* A model of backbundle's asset classification and path rewriting:       *)
(* binary-handler.ts, asset-handler.ts and the asset-path-replacer plugin.*)
(*                                                                         *)
(* Text (paths, package names, source code) is a sequence of atoms.  The  *)
(* characters the code's regular expressions and string operations treat  *)
(* specially are atoms of their own: "/", ".", "\\", "@", "+", "-", " "   *)
(* and the three quote characters.  Every other atom is a word: a run of  *)
(* two or more ordinary characters ("backtick" stands for the one         *)
(* character `).                                                           *)
(***************************************************************************)
EXTENDS Integers, Sequences, FiniteSets, TLC

VARIABLES
    cfg,            \* the BackbundleConfig given to the Bundler
    fs,             \* the directory graph: node id -> [ok, items]
    pc,             \* the position of bundle() / of the function called alone
    out,            \* files under the output root: target path -> bytes
    dirs,           \* directories created under the output root by mkdirSync
    copied,         \* the handlers' copy log, in order
    binaryResult,   \* what handleBinaryPackages returned
    wasmExternals,  \* what handleWasmPackages returned
    assetExternals, \* what handleAssetPackages returned
    contents,       \* onLoad: the text read from args.path
    loadResult,     \* onLoad: what the hook returned
    arg,            \* the argument of the function called alone
    ret             \* the value that function returned      

vars == <<cfg, fs, pc, out, dirs, copied, binaryResult, wasmExternals,
          assetExternals, contents, loadResult, arg, ret>>

----------------------------------------------------------------------------
(* Atoms and strings *)

Slash == "/"
Dot == "."
Backslash == "\\"
SQ == "'"
DQ == "\""
BQ == "backtick"
Quotes == {SQ, DQ, BQ}

\* The atoms that are one character long; every other atom is a word.
SingleChars == {Slash, Dot, Backslash, "@", "+", "-", " ", "(", ")"} \cup Quotes

Range(s) == {s[i] : i \in 1..Len(s)}

\* Array.prototype.includes
Includes(s, x) == \E i \in 1..Len(s) : s[i] = x

\* The concatenation of a sequence of strings.
RECURSIVE Concat(_)
Concat(ss) == IF ss = <<>> THEN <<>> ELSE Head(ss) \o Concat(Tail(ss))

\* String.prototype.split('/'): the segments between the separators.
RECURSIVE SplitOn(_, _)
SplitOn(s, sep) ==
    IF \A i \in 1..Len(s) : s[i] # sep THEN <<s>>
    ELSE LET i == CHOOSE k \in 1..Len(s) :
                      s[k] = sep /\ \A j \in 1..(k - 1) : s[j] # sep
         IN <<SubSeq(s, 1, i - 1)>> \o SplitOn(SubSeq(s, i + 1, Len(s)), sep)

\* fullPath.split('/').pop()
LastSegment(s) == LET parts == SplitOn(s, Slash) IN parts[Len(parts)]

\* String.prototype.replace(/\//g, '-')
ReplaceSlashes(s) == [i \in 1..Len(s) |-> IF s[i] = Slash THEN "-" ELSE s[i]]

\* String.prototype.endsWith, and a regular expression  <suffix>$
EndsWith(s, suffix) ==
    /\ Len(s) >= Len(suffix)
    /\ SubSeq(s, Len(s) - Len(suffix) + 1, Len(s)) = suffix

\* One step of path normalisation: a segment list without "." and empty
\* segments, and with "x/.." cancelled.
RECURSIVE NormSegments(_, _)
NormSegments(segs, acc) ==
    IF segs = <<>> THEN acc
    ELSE LET h == Head(segs) IN
         IF h = <<>> \/ h = <<Dot>> THEN NormSegments(Tail(segs), acc)
         ELSE IF h = <<Dot, Dot>> /\ acc # <<>> /\ acc[Len(acc)] # <<Dot, Dot>>
              THEN NormSegments(Tail(segs), SubSeq(acc, 1, Len(acc) - 1))
         ELSE NormSegments(Tail(segs), Append(acc, h))

RECURSIVE JoinSegments(_)
JoinSegments(segs) ==
    IF segs = <<>> THEN <<>>
    ELSE IF Len(segs) = 1 THEN segs[1]
    ELSE segs[1] \o <<Slash>> \o JoinSegments(Tail(segs))

\* path.join(...parts): joined with "/" and normalised.
Join(parts) ==
    JoinSegments(NormSegments(SplitOn(JoinSegments(parts), Slash), <<>>))

\* path.dirname of a normalised relative path.
Dirname(p) ==
    LET segs == SplitOn(p, Slash)
    IN IF Len(segs) <= 1 THEN <<Dot>>
       ELSE JoinSegments(SubSeq(segs, 1, Len(segs) - 1))

\* The directory of p and every ancestor of it below the root: what
\* mkdirSync(dirname(p), {recursive: true}) makes sure exists.
AncestorDirs(p) ==
    LET segs == SplitOn(p, Slash)
    IN {JoinSegments(SubSeq(segs, 1, k)) : k \in 1..(Len(segs) - 1)}

----------------------------------------------------------------------------
(* The filesystem the handlers read: a graph of directories.  fs[n] is the *)
(* directory with id n; an id outside DOMAIN fs is a path that does not    *)
(* exist.  An entry is a regular file (ref: its bytes), a directory or a   *)
(* link to one (ref: its id; a link may point back to an ancestor), or an  *)
(* entry statSync fails on (a dangling link).                              *)

File(name, bytes) == [name |-> name, kind |-> "file", ref |-> bytes]
Dir(name, node) == [name |-> name, kind |-> "dir", ref |-> node]
Broken(name) == [name |-> name, kind |-> "broken", ref |-> 0]
Listing(items) == [ok |-> TRUE, items |-> items]

existsSync(f, dir) == dir \in DOMAIN f

\* The default of getAllFiles' maxDepth parameter.
DefaultMaxDepth == 3

RECURSIVE getAllFiles(_, _, _, _)
RECURSIVE ScanItems(_, _, _, _, _, _)

\* The loop of getAllFiles over readdirSync's items, from item i on, with the
\* files found so far.  A statSync that throws leaves the loop: the catch
\* is around the whole loop.
ScanItems(f, items, i, maxDepth, currentDepth, files) ==
    IF i > Len(items) THEN files
    ELSE LET item == items[i] IN
         IF item.kind = "broken" THEN files
         ELSE IF item.kind = "file"
              THEN ScanItems(f, items, i + 1, maxDepth, currentDepth,
                             Append(files, item.name))
         ELSE IF currentDepth < maxDepth
              THEN LET subFiles == getAllFiles(f, item.ref, maxDepth,
                                               currentDepth + 1)
                   IN ScanItems(f, items, i + 1, maxDepth, currentDepth,
                                files \o [k \in 1..Len(subFiles) |->
                                    Join(<<item.name, subFiles[k]>>)])
         ELSE ScanItems(f, items, i + 1, maxDepth, currentDepth, files)

getAllFiles(f, dir, maxDepth, currentDepth) ==
    IF ~existsSync(f, dir) \/ currentDepth > maxDepth THEN <<>>
    ELSE IF ~f[dir].ok THEN <<>>
    ELSE ScanItems(f, f[dir].items, 1, maxDepth, currentDepth, <<>>)

----------------------------------------------------------------------------
(* Optional values: <<>> is undefined, <<v>> is v. *)

Undefined == <<>>
Some(v) == <<v>>

\* config.<category>?.strategy
Strategy(cat) == IF cat = Undefined THEN "undefined" ELSE cat[1].strategy

\* a || b on strings: the empty string and undefined both give b
OrDefault(s, d) == IF s = <<>> THEN d ELSE s

----------------------------------------------------------------------------
(* The path rewriter: createAssetPathReplacerPlugin's onLoad hook.         *)
(*                                                                         *)
(* Each rule is the regular expression                                     *)
(*     (['"`])([^'"`]*\/node_modules\/([^/]+)\/[^'"`]*<ext>)\1             *)
(* with <ext> the tail that names the extension.  A tail is a sequence of  *)
(* elements, each a literal atom or "any one character".                   *)

Lit(a) == [any |-> FALSE, ch |-> a]
AnyChar == [any |-> TRUE, ch |-> Dot]

\* How the regular expression engine reads the source of a tail: a
\* backslash makes the next character a literal, an unescaped "." matches
\* any one character, every other atom matches itself.
RECURSIVE ParseTail(_)
ParseTail(src) ==
    IF src = <<>> THEN <<>>
    ELSE IF Head(src) = Backslash /\ Len(src) >= 2
         THEN <<Lit(src[2])>> \o ParseTail(SubSeq(src, 3, Len(src)))
    ELSE IF Head(src) = Dot THEN <<AnyChar>> \o ParseTail(Tail(src))
    ELSE <<Lit(Head(src))>> \o ParseTail(Tail(src))

\* ext.replace('.', '\\.'): the first "." of ext becomes backslash, ".".
EscapeExt(ext) ==
    IF \A i \in 1..Len(ext) : ext[i] # Dot THEN ext
    ELSE LET i == CHOOSE k \in 1..Len(ext) :
                      ext[k] = Dot /\ \A j \in 1..(k - 1) : ext[j] # Dot
         IN SubSeq(ext, 1, i - 1) \o <<Backslash, Dot>>
                \o SubSeq(ext, i + 1, Len(ext))

\* The tails of the two fixed rules, \.wasm and \.node
WasmTail == ParseTail(<<Backslash, Dot, "wasm">>)
BinaryTail == ParseTail(<<Backslash, Dot, "node">>)

\* The tail of the rule built for one asset extension: the template writes
\* a backslash and then the escaped extension.
AssetTail(ext) == ParseTail(<<Backslash>> \o EscapeExt(ext))

MatchTail(s, t, tail) ==
    /\ t + Len(tail) - 1 <= Len(s)
    /\ \A k \in 1..Len(tail) :
           IF tail[k].any THEN s[t + k - 1] \in SingleChars
           ELSE s[t + k - 1] = tail[k].ch

IsNodeModulesAt(s, j) ==
    /\ j + 2 <= Len(s)
    /\ s[j] = Slash /\ s[j + 1] = "node_modules" /\ s[j + 2] = Slash

NoQuoteIn(s, a, b) == \A k \in a..b : s[k] \notin Quotes

SetMax(S) == CHOOSE x \in S : \A y \in S : y <= x

NoMatch == [ok |-> FALSE, end |-> 0, pkg |-> <<>>, fullPath |-> <<>>]

\* The match of a rule that starts at position i, if there is one.  j is
\* where "/node_modules/" starts: the greedy [^'"`]* takes the last place
\* from which the rest matches.  k is the "/" that ends the package name,
\* which [^/]+ makes the first "/" after it (the name may hold any other
\* character).  t is where the tail starts; the closing quote is at t + n.
MatchAt(s, i, tail) ==
    LET n == Len(tail)
        Ks(j) == {k \in (j + 4)..Len(s) :
                      s[k] = Slash /\ \A m \in (j + 3)..(k - 1) : s[m] # Slash}
        Ts(k) == {t \in (k + 1)..(Len(s) - n) :
                      /\ NoQuoteIn(s, k + 1, t - 1)
                      /\ MatchTail(s, t, tail)
                      /\ s[t + n] = s[i]}
        Js == {j \in (i + 1)..Len(s) :
                   /\ NoQuoteIn(s, i + 1, j - 1)
                   /\ IsNodeModulesAt(s, j)
                   /\ \E k \in Ks(j) : Ts(k) # {}}
    IN IF s[i] \notin Quotes \/ Js = {} THEN NoMatch
       ELSE LET j == SetMax(Js)
                k == CHOOSE x \in Ks(j) : TRUE
                t == SetMax(Ts(k))
            IN [ok |-> TRUE, end |-> t + n,
                pkg |-> SubSeq(s, j + 3, k - 1),
                fullPath |-> SubSeq(s, i + 1, t + n - 1)]

\* The replacement callback: quote ./<outputDir>/<packageName>/<fileName> quote
NewPath(quote, outputDir, m) ==
    <<quote, Dot, Slash>> \o outputDir \o <<Slash>> \o m.pkg \o <<Slash>>
        \o LastSegment(m.fullPath) \o <<quote>>

\* String.prototype.replace(regex with flag g, callback), from position i on.
RECURSIVE ReplaceFrom(_, _, _, _)
ReplaceFrom(s, i, tail, outputDir) ==
    IF i > Len(s) THEN <<>>
    ELSE LET m == MatchAt(s, i, tail) IN
         IF m.ok
         THEN NewPath(s[i], outputDir, m)
                  \o ReplaceFrom(s, m.end + 1, tail, outputDir)
         ELSE <<s[i]>> \o ReplaceFrom(s, i + 1, tail, outputDir)

\* One rule applied to the running state [text, hasChanges].
ApplyRule(r, tail, outputDir) ==
    [text |-> ReplaceFrom(r.text, 1, tail, outputDir),
     hasChanges |-> r.hasChanges
                    \/ \E i \in 1..Len(r.text) : MatchAt(r.text, i, tail).ok]

DefaultWasmOutputDir == <<"assets", Slash, "wasm">>
DefaultNativeOutputDir == <<"native">>
DefaultAssetOutputDir == <<"assets">>
DefaultExtensions ==
    <<<<Dot, "json">>, <<Dot, "txt">>, <<Dot, "xml">>, <<Dot, "yaml">>,
      <<Dot, "yml">>>>

WasmRule(c, r) ==
    IF Strategy(c.wasmPackages) = "copy"
    THEN ApplyRule(r, WasmTail,
                   OrDefault(c.wasmPackages[1].outputDir, DefaultWasmOutputDir))
    ELSE r

BinaryRule(c, r) ==
    IF Strategy(c.binaryPackages) = "copy"
    THEN ApplyRule(r, BinaryTail,
                   OrDefault(c.binaryPackages[1].outputDir,
                             DefaultNativeOutputDir))
    ELSE r

\* The loop over the asset extensions, from extension i on.
RECURSIVE AssetLoop(_, _, _, _)
AssetLoop(r, extensions, i, outputDir) ==
    IF i > Len(extensions) THEN r
    ELSE AssetLoop(ApplyRule(r, AssetTail(extensions[i]), outputDir),
                   extensions, i + 1, outputDir)

AssetExtensions(cat) ==
    IF cat[1].extensions = Undefined THEN DefaultExtensions
    ELSE cat[1].extensions[1]

AssetRule(c, r) ==
    IF Strategy(c.assetPackages) = "copy"
    THEN AssetLoop(r, AssetExtensions(c.assetPackages), 1,
                   OrDefault(c.assetPackages[1].outputDir,
                             DefaultAssetOutputDir))
    ELSE r

\* transformedContents and hasChanges after the three rules.
Transform(c, text) ==
    AssetRule(c, BinaryRule(c, WasmRule(c, [text |-> text, hasChanges |-> FALSE])))

\* The loader of the returned file.
Loader(path) ==
    IF EndsWith(path, <<Dot, "ts">>) \/ EndsWith(path, <<Dot, "tsx">>)
    THEN "ts" ELSE "js"

Null == [changed |-> FALSE, contents |-> <<>>, loader |-> "none"]

\* What the hook returns for the file at path holding text.
onLoad(c, path, text) ==
    LET r == Transform(c, text) IN
    IF r.hasChanges
    THEN [changed |-> TRUE, contents |-> r.text, loader |-> Loader(path)]
    ELSE Null

\* The text the engine goes on with: the returned contents, or the file's
\* own when the hook returned null.
LoadedText(text, result) == IF result.changed THEN result.contents ELSE text

----------------------------------------------------------------------------
(* Paths into the directory graph *)

\* The id of <cwd>/node_modules
nodeModulesPath == 0

NoEntry == [name |-> <<>>, kind |-> "none", ref |-> 0]

\* The entry called name in directory dir.
EntryOf(f, dir, name) ==
    IF dir \notin DOMAIN f
       \/ \A i \in 1..Len(f[dir].items) : f[dir].items[i].name # name
    THEN NoEntry
    ELSE LET i == CHOOSE k \in 1..Len(f[dir].items) : f[dir].items[k].name = name
         IN f[dir].items[i]

\* The entry a path (a list of segments) below dir leads to.
RECURSIVE Resolve(_, _, _)
Resolve(f, dir, segs) ==
    LET e == EntryOf(f, dir, Head(segs)) IN
    IF Len(segs) = 1 THEN e
    ELSE IF e.kind = "dir" THEN Resolve(f, e.ref, Tail(segs))
    ELSE NoEntry

\* join(nodeModulesPath, packageName): the package's directory id, or -1
\* when nothing is there.
PackagePath(f, packageName) ==
    LET e == Resolve(f, nodeModulesPath, SplitOn(packageName, Slash))
    IN IF e.kind = "dir" /\ e.ref \in DOMAIN f THEN e.ref ELSE -1

\* The bytes of the regular file at join(dir, file).
ReadFile(f, dir, file) == Resolve(f, dir, SplitOn(file, Slash)).ref

\* glob.sync of "**/*<ext>" patterns with cwd dir: the regular files below
\* dir, at any depth, whose name ends in one of exts; names that start with
\* "." are passed over unless dot is set.  budget bounds the descent by the
\* number of directories that exist.
RECURSIVE GlobFrom(_, _, _, _, _, _)
GlobFrom(f, dir, exts, dot, i, budget) ==
    IF dir \notin DOMAIN f \/ i > Len(f[dir].items) THEN <<>>
    ELSE LET item == f[dir].items[i]
             rest == GlobFrom(f, dir, exts, dot, i + 1, budget)
         IN IF Head(item.name) = Dot /\ ~dot THEN rest
            ELSE IF item.kind = "file"
                 THEN IF \E e \in Range(exts) : EndsWith(item.name, e)
                      THEN <<item.name>> \o rest ELSE rest
            ELSE IF item.kind = "dir" /\ budget > 0
                 THEN LET sub == GlobFrom(f, item.ref, exts, dot, 1, budget - 1)
                      IN [k \in 1..Len(sub) |-> Join(<<item.name, sub[k]>>)]
                             \o rest
            ELSE rest

Glob(f, dir, exts, dot) ==
    GlobFrom(f, dir, exts, dot, 1, Cardinality(DOMAIN f))

----------------------------------------------------------------------------
(* The output tree *)

\* dirname(config.output)
outputDir == <<"dist">>

EmptyWorld == [out |-> <<>>, dirs |-> {}, copied |-> <<>>]

\* The bytes of a file copyFileSync cannot read: it throws on it.
Unreadable == -1

\* mkdirSync(dirname(targetPath), {recursive: true}) alone: what is left of a
\* copy when copyFileSync throws.
MkdirOnly(w, targetPath) ==
    [w EXCEPT !.dirs = w.dirs \cup AncestorDirs(targetPath)]

\* mkdirSync(dirname(targetPath), {recursive: true}), copyFileSync(sourcePath,
\* targetPath) and the log line of one copied file.
CopyFile(w, category, packageName, file, targetPath, bytes) ==
    [out |-> (targetPath :> bytes) @@ w.out,
     dirs |-> w.dirs \cup AncestorDirs(targetPath),
     copied |-> Append(w.copied,
                       [category |-> category, pkg |-> packageName,
                        file |-> file, target |-> targetPath])]

----------------------------------------------------------------------------
(* binary-handler.ts *)

KNOWN_BINARY_PACKAGES ==
    <<<<"sqlite3">>, <<"better", "-", "sqlite3">>, <<"node", "-", "oracledb">>,
      <<"oracledb">>, <<"pg">>, <<"mysql">>, <<"mysql2">>, <<"sharp">>,
      <<"canvas">>, <<"node", "-", "canvas">>, <<"node", "-", "zstd">>,
      <<"snappy">>, <<"bcrypt">>, <<"argon2">>, <<"node", "-", "gyp">>,
      <<"msgpack">>, <<"protobufjs">>, <<"node", "-", "pty">>,
      <<"node", "-", "ssh">>, <<"node", "-", "ffi">>,
      <<"cpu", "-", "features">>, <<"re2">>>>

Digits == {"0", "1", "2", "3", "4", "5", "6", "7", "8", "9"}

\* /prebuilds?\//
HasPrebuilds(file) ==
    \E i \in 1..(Len(file) - 1) :
        file[i] \in {"prebuild", "prebuilds"} /\ file[i + 1] = Slash

\* /build\/Release\//
HasBuildRelease(file) ==
    \E i \in 1..(Len(file) - 3) :
        /\ file[i] \in {"build", "prebuild"} /\ file[i + 1] = Slash
        /\ file[i + 2] = "Release" /\ file[i + 3] = Slash

\* /\.so(\.\d+)*$/
RECURSIVE EndsWithSoVersion(_)
EndsWithSoVersion(file) ==
    \/ EndsWith(file, <<Dot, "so">>)
    \/ \E n \in 1..(Len(file) - 1) :
           /\ \A k \in (Len(file) - n + 1)..Len(file) : file[k] \in Digits
           /\ file[Len(file) - n] = Dot
           /\ EndsWithSoVersion(SubSeq(file, 1, Len(file) - n - 1))

\* The patterns of isBinaryPackage.
MatchesDetectPattern(file) ==
    \/ EndsWith(file, <<Dot, "node">>)
    \/ EndsWith(file, <<Dot, "so">>)
    \/ EndsWith(file, <<Dot, "dll">>)
    \/ EndsWith(file, <<Dot, "dylib">>)
    \/ EndsWith(file, <<Dot, "exe">>)
    \/ EndsWith(file, <<"binding", Dot, "gyp">>)
    \/ HasPrebuilds(file)
    \/ HasBuildRelease(file)

\* binaryPatterns of copyBinaryFiles.
MatchesBinaryPattern(file) ==
    \/ EndsWith(file, <<Dot, "node">>)
    \/ EndsWithSoVersion(file)
    \/ EndsWith(file, <<Dot, "dll">>)
    \/ EndsWith(file, <<Dot, "dylib">>)
    \/ EndsWith(file, <<Dot, "exe">>)
    \/ HasPrebuilds(file)
    \/ HasBuildRelease(file)

\* isBinaryPackage that looks at the allow-list only when the directory exists.
isBinaryPackageExistingOnly(f, packageName, packagePath) ==
    /\ existsSync(f, packagePath)
    /\ \/ Includes(KNOWN_BINARY_PACKAGES, packageName)
       \/ \E file \in Range(getAllFiles(f, packagePath, DefaultMaxDepth, 0)) :
              MatchesDetectPattern(file)

isBinaryPackage(f, packageName, packagePath) ==
    \/ Includes(KNOWN_BINARY_PACKAGES, packageName)
    \/ \E file \in Range(getAllFiles(f, packagePath, DefaultMaxDepth, 0)) :
           MatchesDetectPattern(file)

\* targetPath of copyBinaryFiles
BinaryTargetPath(outputPath, packageName, file, preserveStructure) ==
    IF preserveStructure
    THEN Join(<<outputPath, <<"node_modules">>, packageName, file>>)
    ELSE Join(<<outputPath, <<"binaries">>, packageName, file>>)

\* The loop of copyBinaryFiles over files, from file i on.  r is
\* [w, copiedFiles]: the output tree and the list returned.  A copyFileSync
\* that throws leaves the loop: the catch is around the whole loop.
RECURSIVE CopyBinaryLoop(_, _, _, _, _, _, _, _)
CopyBinaryLoop(f, r, files, i, packageName, packagePath, outputPath, preserveStructure) ==
    IF i > Len(files) THEN r
    ELSE IF ~MatchesBinaryPattern(files[i])
         THEN CopyBinaryLoop(f, r, files, i + 1, packageName, packagePath,
                             outputPath, preserveStructure)
    ELSE LET targetPath == BinaryTargetPath(outputPath, packageName, files[i],
                                            preserveStructure)
         IN IF ReadFile(f, packagePath, files[i]) = Unreadable
            THEN [r EXCEPT !.w = MkdirOnly(r.w, targetPath)]
            ELSE
            CopyBinaryLoop(f,
                [w |-> CopyFile(r.w, "binary", packageName, files[i], targetPath,
                                ReadFile(f, packagePath, files[i])),
                 copiedFiles |-> Append(r.copiedFiles, targetPath)],
                files, i + 1, packageName, packagePath, outputPath,
                preserveStructure)

\* copyBinaryFiles that passes over the files whose target is there already.
copyBinaryFilesSkipExisting(f, w, packageName, packagePath, outputPath, preserveStructure) ==
    CopyBinaryLoop(f, [w |-> w, copiedFiles |-> <<>>],
                   SelectSeq(getAllFiles(f, packagePath, DefaultMaxDepth, 0),
                             LAMBDA file :
                                 BinaryTargetPath(outputPath, packageName, file,
                                                  preserveStructure)
                                     \notin DOMAIN w.out),
                   1, packageName, packagePath, outputPath, preserveStructure)

copyBinaryFiles(f, w, packageName, packagePath, outputPath, preserveStructure) ==
    CopyBinaryLoop(f, [w |-> w, copiedFiles |-> <<>>],
                   getAllFiles(f, packagePath, DefaultMaxDepth, 0), 1,
                   packageName, packagePath, outputPath, preserveStructure)

\* new Set(list), in insertion order
RECURSIVE Dedupe(_, _)
Dedupe(list, acc) ==
    IF list = <<>> THEN acc
    ELSE Dedupe(Tail(list),
                IF Includes(acc, Head(list)) THEN acc ELSE Append(acc, Head(list)))

\* The auto-detection loop over readdirSync(nodeModulesPath), from item i
\* on; a statSync that throws ends it with what was found so far.
RECURSIVE DetectBinaryLoop(_, _, _, _)
DetectBinaryLoop(f, items, i, found) ==
    IF i > Len(items) THEN found
    ELSE LET item == items[i] IN
         IF Head(item.name) = Dot THEN DetectBinaryLoop(f, items, i + 1, found)
         ELSE IF item.kind = "broken" THEN found
         ELSE IF item.kind = "dir" /\ isBinaryPackage(f, item.name, item.ref)
              THEN DetectBinaryLoop(f, items, i + 1,
                                    Dedupe(<<item.name>>, found))
         ELSE DetectBinaryLoop(f, items, i + 1, found)

\* binaryConfig.packages || []
ExplicitPackages(cat) ==
    IF cat = Undefined \/ cat[1].packages = Undefined THEN <<>>
    ELSE cat[1].packages[1]

\* packagesToCheck of handleBinaryPackages
BinaryPackagesToCheck(f, cat) ==
    LET explicitPackages == ExplicitPackages(cat) IN
    IF Len(explicitPackages) = 0
    THEN IF nodeModulesPath \in DOMAIN f /\ f[nodeModulesPath].ok
         THEN DetectBinaryLoop(f, f[nodeModulesPath].items, 1, <<>>)
         ELSE <<>>
    ELSE Dedupe(explicitPackages, <<>>)

\* binaryConfig.strategy || 'external'
BinaryStrategy(cat) ==
    IF Strategy(cat) = "undefined" THEN "external" ELSE Strategy(cat)

\* binaryConfig.preserveStructure !== false
BinaryPreserveStructure(cat) ==
    ~(cat # Undefined /\ cat[1].preserveStructure = Some(FALSE))

\* handleBinaryPackages' switch with a default case that marks external.
BinarySwitchDefaultExternal(f, r, strategy, packageName, packagePath, outputPath, preserveStructure) ==
    IF strategy = "copy"
    THEN LET c == copyBinaryFiles(f, r.w, packageName, packagePath, outputPath,
                                  preserveStructure)
         IN [w |-> c.w,
             external |-> Append(r.external, packageName),
             copiedFiles |-> r.copiedFiles \o c.copiedFiles]
    ELSE IF strategy = "ignore" THEN r
    ELSE [r EXCEPT !.external = Append(r.external, packageName)]

\* The switch of handleBinaryPackages on one package whose directory
\* exists.  r is [w, external, copiedFiles].
BinarySwitch(f, r, strategy, packageName, packagePath, outputPath, preserveStructure) ==
    IF strategy = "copy"
    THEN LET c == copyBinaryFiles(f, r.w, packageName, packagePath, outputPath,
                                  preserveStructure)
         IN [w |-> c.w,
             external |-> Append(r.external, packageName),
             copiedFiles |-> r.copiedFiles \o c.copiedFiles]
    ELSE IF strategy = "external"
    THEN [r EXCEPT !.external = Append(r.external, packageName)]
    ELSE r

\* handleBinaryPackages' loop without the existsSync test on the package's
\* directory.
RECURSIVE BinaryLoopKeepsAbsent(_, _, _, _, _, _, _)
BinaryLoopKeepsAbsent(f, r, packages, i, strategy, outputPath, preserveStructure) ==
    IF i > Len(packages) THEN r
    ELSE BinaryLoopKeepsAbsent(f,
             IF strategy = "external"
             THEN [r EXCEPT !.external = Append(r.external, packages[i])]
             ELSE IF PackagePath(f, packages[i]) = -1 THEN r
             ELSE BinarySwitch(f, r, strategy, packages[i],
                               PackagePath(f, packages[i]), outputPath,
                               preserveStructure),
             packages, i + 1, strategy, outputPath, preserveStructure)

\* The processing loop of handleBinaryPackages, from package i on.
RECURSIVE BinaryLoop(_, _, _, _, _, _, _)
BinaryLoop(f, r, packages, i, strategy, outputPath, preserveStructure) ==
    IF i > Len(packages) THEN r
    ELSE LET packagePath == PackagePath(f, packages[i])
         IN BinaryLoop(f,
                IF packagePath = -1 THEN r
                ELSE BinarySwitch(f, r, strategy, packages[i], packagePath,
                                  outputPath, preserveStructure),
                packages, i + 1, strategy, outputPath, preserveStructure)

handleBinaryPackages(f, w, config, outputPath) ==
    BinaryLoop(f, [w |-> w, external |-> <<>>, copiedFiles |-> <<>>],
               BinaryPackagesToCheck(f, config.binaryPackages), 1,
               BinaryStrategy(config.binaryPackages), outputPath,
               BinaryPreserveStructure(config.binaryPackages))

----------------------------------------------------------------------------
(* asset-handler.ts *)

\* The ignore patterns of detectWasmPackages: a directory segment called
\* test, tests, example or examples.
IsIgnored(file) ==
    LET parts == SplitOn(file, Slash)
    IN \E i \in 1..(Len(parts) - 1) :
           parts[i] \in {<<"test">>, <<"tests">>, <<"example">>, <<"examples">>}

\* String.prototype.lastIndexOf, counted from 1 (0: not found)
LastIndexOf(s, a) ==
    IF \A i \in 1..Len(s) : s[i] # a THEN 0
    ELSE SetMax({i \in 1..Len(s) : s[i] = a})

\* The package name detectWasmPackages derives from the path of one .wasm
\* file, relative to node_modules.
DetectName(wasmFile) ==
    LET parts == SplitOn(wasmFile, Slash) IN
    IF parts[1] = <<Dot, "pnpm">> /\ Len(parts) >= 4
    THEN LET pnpmPackageDir == parts[2] IN
         IF pnpmPackageDir # <<>> /\ Head(pnpmPackageDir) = "@"
         THEN SubSeq(pnpmPackageDir, 1, LastIndexOf(pnpmPackageDir, "@") - 1)
         ELSE SplitOn(pnpmPackageDir, "@")[1]
    ELSE IF parts[1] # <<>> /\ Head(parts[1]) = "@"
         THEN parts[1] \o <<Slash>>
                  \o (IF Len(parts) >= 2 THEN parts[2] ELSE <<"undefined">>)
    ELSE parts[1]

\* The loop of detectWasmPackages over the files found, from file i on.
RECURSIVE DetectWasmLoop(_, _, _)
DetectWasmLoop(wasmFiles, i, wasmPackages) ==
    IF i > Len(wasmFiles) THEN wasmPackages
    ELSE LET packageName == DetectName(wasmFiles[i]) IN
         DetectWasmLoop(wasmFiles, i + 1,
                        IF Includes(wasmPackages, packageName) THEN wasmPackages
                        ELSE Append(wasmPackages, packageName))

\* The .wasm files glob finds below node_modules, hidden directories
\* included, the ignored ones left out.
WasmFilesIn(f) ==
    LET all == Glob(f, nodeModulesPath, <<<<Dot, "wasm">>>>, TRUE)
    IN SelectSeq(all, LAMBDA file : ~IsIgnored(file))

detectWasmPackages(f) ==
    IF ~existsSync(f, nodeModulesPath) THEN <<>>
    ELSE DetectWasmLoop(WasmFilesIn(f), 1, <<>>)

\* targetPath of copyWasmFiles and of copyAssetFiles
AssetTargetPath(outputBase, packageName, file, preserveStructure) ==
    IF preserveStructure
    THEN Join(<<outputDir, outputBase, packageName, file>>)
    ELSE Join(<<outputDir, outputBase,
                packageName \o <<"-">> \o ReplaceSlashes(file)>>)

\* The copy loop of copyWasmFiles and of copyAssetFiles, from file i on.  A
\* copyFileSync that throws leaves the loop: the catch is around the whole
\* function body.
RECURSIVE CopyLoop(_, _, _, _, _, _, _, _, _)
CopyLoop(f, w, category, files, i, packageName, packagePath, outputBase, preserveStructure) ==
    IF i > Len(files) THEN w
    ELSE IF ReadFile(f, packagePath, files[i]) = Unreadable
         THEN MkdirOnly(w, AssetTargetPath(outputBase, packageName, files[i],
                                           preserveStructure))
    ELSE CopyLoop(f,
             CopyFile(w, category, packageName, files[i],
                      AssetTargetPath(outputBase, packageName, files[i],
                                      preserveStructure),
                      ReadFile(f, packagePath, files[i])),
             category, files, i + 1, packageName, packagePath, outputBase,
             preserveStructure)

\* The directories glob finds in node_modules/.pnpm for the package:
\* <name>@*/node_modules/<name>, or for a scoped name *<scope>*<name>*/...
PnpmDirs(f, packageName) ==
    LET store == PackagePath(f, <<Dot, "pnpm">>)
        parts == SplitOn(packageName, Slash)
        Contains(s, sub, from) ==
            \E i \in from..(Len(s) - Len(sub) + 1) :
                SubSeq(s, i, i + Len(sub) - 1) = sub
        Matches(name) ==
            IF Len(parts) >= 2
            THEN \E i \in 1..(Len(name) - Len(parts[1]) + 1) :
                     /\ SubSeq(name, i, i + Len(parts[1]) - 1) = parts[1]
                     /\ Contains(name, parts[2], i + Len(parts[1]))
            ELSE /\ Len(name) > Len(packageName)
                 /\ SubSeq(name, 1, Len(packageName) + 1) = packageName \o <<"@">>
        Inner(item) ==
            Resolve(f, item.ref, <<<<"node_modules">>>> \o parts)
    IN IF store = -1 THEN <<>>
       ELSE LET hits == SelectSeq(f[store].items, LAMBDA item :
                            /\ item.kind = "dir" /\ Matches(item.name)
                            /\ Inner(item).kind = "dir")
            IN [k \in 1..Len(hits) |-> Inner(hits[k]).ref]

\* a parameter preserveStructure = true given config.<category>.preserveStructure
PreserveStructure(cat) == cat[1].preserveStructure # Some(FALSE)

copyWasmFiles(f, w, config, packagePath, packageName, preserveStructure) ==
    LET pnpmDirs == PnpmDirs(f, packageName)
        actualPackagePath ==
            IF packagePath = -1 /\ Len(pnpmDirs) > 0 THEN pnpmDirs[1]
            ELSE packagePath
    IN IF actualPackagePath = -1 THEN w
       ELSE CopyLoop(f, w, "wasm",
                     Glob(f, actualPackagePath, <<<<Dot, "wasm">>>>, FALSE), 1,
                     packageName, actualPackagePath,
                     OrDefault(config.wasmPackages[1].outputDir,
                               DefaultWasmOutputDir),
                     preserveStructure)

\* handleWasmPackages' switch with a case external that copies as well.
WasmSwitchExternalCopies(f, r, config, packageName, packagePath) ==
    LET strategy == Strategy(config.wasmPackages) IN
    IF strategy \in {"copy", "inline", "external"}
    THEN [w |-> copyWasmFiles(f, r.w, config, packagePath, packageName,
                              PreserveStructure(config.wasmPackages)),
          externals |-> IF strategy = "external"
                        THEN Append(r.externals, packageName)
                        ELSE r.externals]
    ELSE r

\* The switch of handleWasmPackages on one package whose directory exists.
\* r is [w, externals].
WasmSwitch(f, r, config, packageName, packagePath) ==
    LET strategy == Strategy(config.wasmPackages) IN
    IF strategy = "copy" \/ strategy = "inline"
    THEN [r EXCEPT !.w = copyWasmFiles(f, r.w, config, packagePath, packageName,
                                       PreserveStructure(config.wasmPackages))]
    ELSE IF strategy = "external"
    THEN [r EXCEPT !.externals = Append(r.externals, packageName)]
    ELSE r

\* The loop of handleWasmPackages, from package i on.
RECURSIVE WasmLoop(_, _, _, _, _)
WasmLoop(f, r, packages, i, config) ==
    IF i > Len(packages) THEN r
    ELSE LET packagePath == PackagePath(f, packages[i])
         IN WasmLoop(f,
                IF packagePath = -1 THEN r
                ELSE WasmSwitch(f, r, config, packages[i], packagePath),
                packages, i + 1, config)

handleWasmPackages(f, w, config) ==
    LET wasmConfig == config.wasmPackages IN
    IF wasmConfig = Undefined \/ Strategy(wasmConfig) = "ignore"
    THEN [w |-> w, externals |-> <<>>]
    ELSE WasmLoop(f, [w |-> w, externals |-> <<>>],
                  IF wasmConfig[1].packages = Undefined
                  THEN detectWasmPackages(f) ELSE wasmConfig[1].packages[1],
                  1, config)

\* copyAssetFiles with the default extensions in place of the ones passed.
copyAssetFilesDefaultExtensions(f, w, config, packagePath, packageName, extensions, preserveStructure) ==
    CopyLoop(f, w, "asset", Glob(f, packagePath, DefaultExtensions, FALSE), 1,
             packageName, packagePath,
             OrDefault(config.assetPackages[1].outputDir, DefaultAssetOutputDir),
             preserveStructure)

copyAssetFiles(f, w, config, packagePath, packageName, extensions, preserveStructure) ==
    CopyLoop(f, w, "asset", Glob(f, packagePath, extensions, FALSE), 1,
             packageName, packagePath,
             OrDefault(config.assetPackages[1].outputDir, DefaultAssetOutputDir),
             preserveStructure)

\* The switch of handleAssetPackages on one package whose directory exists.
AssetSwitch(f, r, config, packageName, packagePath) ==
    LET strategy == Strategy(config.assetPackages) IN
    IF strategy = "copy" \/ strategy = "inline"
    THEN [r EXCEPT !.w = copyAssetFiles(f, r.w, config, packagePath, packageName,
                                        AssetExtensions(config.assetPackages),
                                        PreserveStructure(config.assetPackages))]
    ELSE IF strategy = "external"
    THEN [r EXCEPT !.externals = Append(r.externals, packageName)]
    ELSE r

\* The loop of handleAssetPackages, from package i on.
RECURSIVE AssetPackagesLoop(_, _, _, _, _)
AssetPackagesLoop(f, r, packages, i, config) ==
    IF i > Len(packages) THEN r
    ELSE LET packagePath == PackagePath(f, packages[i])
         IN AssetPackagesLoop(f,
                IF packagePath = -1 THEN r
                ELSE AssetSwitch(f, r, config, packages[i], packagePath),
                packages, i + 1, config)

handleAssetPackages(f, w, config) ==
    LET assetConfig == config.assetPackages IN
    IF assetConfig = Undefined \/ Strategy(assetConfig) = "ignore"
    THEN [w |-> w, externals |-> <<>>]
    ELSE AssetPackagesLoop(f, [w |-> w, externals |-> <<>>],
                           ExplicitPackages(assetConfig), 1, config)

----------------------------------------------------------------------------
(* The inputs of the build: configurations, dependency trees, sources *)

Strategies == {"copy", "external", "ignore", "inline", "bogus", "undefined"}

Category(strategy, packages, dir, preserveStructure, extensions) ==
    Some([strategy |-> strategy, packages |-> packages, outputDir |-> dir,
          preserveStructure |-> preserveStructure, extensions |-> extensions])

Alpha == <<"alpha">>
Beta == <<"beta">>
Gamma == <<"gamma">>

Wasm == <<Dot, "wasm">>
Node == <<Dot, "node">>
Json == <<Dot, "json">>
Yaml == <<Dot, "yaml">>

\* The configurations of the build specification.  Each category is absent
\* or has one of the strategies; the three categories share whether
\* preserveStructure is left out, true or false and whether outputDir is
\* set; every package list is alpha, beta, gamma.
Configs ==
    LET Cat(choice, dir, ps, exts) ==
            IF choice = "absent" THEN Undefined
            ELSE Category(choice, Some(<<Alpha, Beta, Gamma>>), dir, ps, exts)
    IN {[binaryPackages |-> Cat(b, IF d THEN <<"bin">> ELSE <<>>, ps, Undefined),
         wasmPackages |-> Cat(w, IF d THEN <<"static", Slash, "wasm">> ELSE <<>>,
                              ps, Undefined),
         assetPackages |-> Cat(a, IF d THEN <<"data">> ELSE <<>>, ps, exts)] :
          b \in Strategies \cup {"absent"}, w \in Strategies \cup {"absent"},
          a \in Strategies \cup {"absent"}, d \in BOOLEAN,
          ps \in {Undefined, Some(TRUE), Some(FALSE)},
          exts \in {Undefined, Some(<<Json>>)}}

\* node_modules with the packages alpha and beta; gamma is not installed.
\*   alpha/a.wasm  alpha/data.json  alpha/conf.yaml  alpha/lib/mod.wasm
\*   alpha/lib/d.json  alpha/build/Release/addon.node
\*   beta/q.node  beta/q.wasm  beta/q.yaml
ProjectFS ==
    LET alpha == Listing(<<File(<<"a">> \o Wasm, 11), File(<<"data">> \o Json, 12),
                           File(<<"conf">> \o Yaml, 13), Dir(<<"lib">>, 2),
                           Dir(<<"build">>, 3)>>)
        lib == Listing(<<File(<<"mod">> \o Wasm, 14), File(<<"d">> \o Json, 15)>>)
        build == Listing(<<Dir(<<"Release">>, 4)>>)
        release == Listing(<<File(<<"addon">> \o Node, 16)>>)
        beta == Listing(<<File(<<"q">> \o Node, 17), File(<<"q">> \o Wasm, 18),
                          File(<<"q">> \o Yaml, 19)>>)
    IN (0 :> Listing(<<Dir(Alpha, 1), Dir(Beta, 5)>>)) @@ (1 :> alpha)
           @@ (2 :> lib) @@ (3 :> build) @@ (4 :> release) @@ (5 :> beta)

\* The files a source may refer to: <package>/<path in the package>.
PackageFiles ==
    {<<Alpha, <<"a">> \o Wasm>>, <<Alpha, <<"data">> \o Json>>,
     <<Alpha, <<"conf">> \o Yaml>>, <<Alpha, <<"lib", Slash, "mod">> \o Wasm>>,
     <<Alpha, <<"lib", Slash, "d">> \o Json>>,
     <<Alpha, <<"build", Slash, "Release", Slash, "addon">> \o Node>>,
     <<Beta, <<"q">> \o Node>>, <<Beta, <<"q">> \o Wasm>>}

\* The literal  quote <prefix>/node_modules/<pkg>/<file> quote
ModuleLiteral(quote, packageName, file) ==
    <<quote, Dot, Dot, Slash, "node_modules", Slash>> \o packageName
        \o <<Slash>> \o file \o <<quote>>

\* A source line that loads the path a literal names.
LoadOf(literal) == <<"load", "(">> \o literal \o <<")">>

\* The sources of the build specification: one literal each, naming a file
\* of a package or a local file.
ProjectSources ==
    {LoadOf(ModuleLiteral(SQ, pf[1], pf[2])) : pf \in PackageFiles}
        \cup {LoadOf(<<SQ, Dot, Slash, "local", Slash, "file">> \o Wasm \o <<SQ>>)}

TsPath == <<"src", Slash, "app", Dot, "ts">>

----------------------------------------------------------------------------
(* bundle(): the handlers, then the engine loading sources through the hook *)

World == [out |-> out, dirs |-> dirs, copied |-> copied]

NoLoad == [path |-> <<>>, text |-> <<>>]

Init ==
    /\ cfg \in Configs
    /\ fs = ProjectFS
    /\ pc = "binary"
    /\ out = <<>> /\ dirs = {} /\ copied = <<>>
    /\ binaryResult = [external |-> <<>>, copiedFiles |-> <<>>]
    /\ wasmExternals = <<>> /\ assetExternals = <<>>
    /\ contents = NoLoad /\ loadResult = Null
    /\ arg = <<>> /\ ret = <<>>

\* bundle(), lines 116-126: the binary handler runs when node_modules exists
\* and config.binaryPackages is set.
HandleBinaryPackages ==
    /\ pc = "binary"
    /\ LET r == IF existsSync(fs, nodeModulesPath) /\ cfg.binaryPackages # Undefined
                THEN handleBinaryPackages(fs, World, cfg, outputDir)
                ELSE [w |-> World, external |-> <<>>, copiedFiles |-> <<>>]
       IN /\ out' = r.w.out /\ dirs' = r.w.dirs /\ copied' = r.w.copied
          /\ binaryResult' = [external |-> r.external,
                              copiedFiles |-> r.copiedFiles]
    /\ pc' = "wasm"
    /\ UNCHANGED <<cfg, fs, wasmExternals, assetExternals, contents,
                   loadResult, arg, ret>>

\* getAllExternals, first half
HandleWasmPackages ==
    /\ pc = "wasm"
    /\ LET r == IF existsSync(fs, nodeModulesPath)
                THEN handleWasmPackages(fs, World, cfg)
                ELSE [w |-> World, externals |-> <<>>]
       IN /\ out' = r.w.out /\ dirs' = r.w.dirs /\ copied' = r.w.copied
          /\ wasmExternals' = r.externals
    /\ pc' = "asset"
    /\ UNCHANGED <<cfg, fs, binaryResult, assetExternals, contents,
                   loadResult, arg, ret>>

\* getAllExternals, second half
HandleAssetPackages ==
    /\ pc = "asset"
    /\ LET r == IF existsSync(fs, nodeModulesPath)
                THEN handleAssetPackages(fs, World, cfg)
                ELSE [w |-> World, externals |-> <<>>]
       IN /\ out' = r.w.out /\ dirs' = r.w.dirs /\ copied' = r.w.copied
          /\ assetExternals' = r.externals
    /\ pc' = "build"
    /\ UNCHANGED <<cfg, fs, binaryResult, wasmExternals, contents,
                   loadResult, arg, ret>>

\* The engine loads the source at path, which holds text, through the hook.
OnLoad(path, text) ==
    /\ pc = "build"
    /\ contents' = [path |-> path, text |-> text]
    /\ loadResult' = onLoad(cfg, path, text)
    /\ pc' = "loaded"
    /\ UNCHANGED <<cfg, fs, out, dirs, copied, binaryResult, wasmExternals,
                   assetExternals, arg, ret>>

LoadProjectSource == \E text \in ProjectSources : OnLoad(TsPath, text)

Next ==
    \/ HandleBinaryPackages
    \/ HandleWasmPackages
    \/ HandleAssetPackages
    \/ LoadProjectSource

Spec == Init /\ [][Next]_vars

----------------------------------------------------------------------------
(* The hook alone, on sources with several literals.  The build has run on *)
(* a project whose node_modules is empty, so nothing was copied.           *)

\* The most literals a source holds.
MaxLiterals == 2

EmptyFS == (0 :> Listing(<<>>))

\* The configurations of the rewrite specification: the hook reads each
\* category's strategy (copy or not), outputDir and the asset extensions.
\* The output directories are left out, or set to directories of their
\* own, or set to directories below node_modules.
RewriteConfigs ==
    LET Cat(choice, dir, exts) ==
            IF choice = "absent" THEN Undefined
            ELSE Category(choice, Undefined, dir, Undefined, exts)
        Under(d, name) ==
            IF d = "unset" THEN <<>>
            ELSE IF d = "own" THEN name
            ELSE <<"node_modules", Slash>> \o name
    IN {[binaryPackages |-> Cat(b, Under(d, <<"bin">>), Undefined),
         wasmPackages |-> Cat(w, Under(d, <<"static", Slash, "wasm">>),
                              Undefined),
         assetPackages |-> Cat(a, Under(d, <<"data">>), exts)] :
          b \in {"copy", "absent"}, w \in {"copy", "inline", "absent"},
          a \in {"copy", "absent"}, d \in {"unset", "own", "store"},
          exts \in {Undefined, Some(<<Json>>)}}

\* The paths literals hold: files of a package, the package's directory, a
\* local file, a file name written with an escaped dot, and a file of the
\* scoped package @scope/name.
LiteralPaths ==
    LET nm == <<Dot, Dot, Slash, "node_modules", Slash>> \o Alpha
    IN {nm \o <<Slash, "lib", Slash, "mod">> \o Wasm,
        nm \o <<Slash, "data">> \o Json,
        nm \o <<Slash, "build", Slash, "Release", Slash, "addon">> \o Node,
        nm \o <<Slash, "data", Backslash>> \o Json,
        nm,
        <<Dot, Slash, "local", Slash, "file">> \o Wasm,
        <<Dot, Dot, Slash, "node_modules", Slash, "@", "scope", Slash, "name",
          Slash, "file">> \o Wasm}

Literal(quote, path) == <<quote>> \o path \o <<quote>>

Literals ==
    {Literal(SQ, path) : path \in LiteralPaths}
        \cup {Literal(DQ, <<Dot, Slash, "local", Slash, "file">> \o Wasm)}

\* Literals joined by the operator +
RECURSIVE Render(_)
Render(lits) ==
    IF Len(lits) = 1 THEN lits[1]
    ELSE lits[1] \o <<"+">> \o Render(Tail(lits))

LiteralLists == UNION {[1..n -> Literals] : n \in 1..MaxLiterals}

SourcePaths ==
    {<<"src", Slash, "app", Dot, e>> : e \in {"ts", "tsx", "js", "jsx"}}

InitRewrite ==
    /\ cfg \in RewriteConfigs
    /\ fs = EmptyFS
    /\ pc = "build"
    /\ out = <<>> /\ dirs = {} /\ copied = <<>>
    /\ binaryResult = [external |-> <<>>, copiedFiles |-> <<>>]
    /\ wasmExternals = <<>> /\ assetExternals = <<>>
    /\ contents = NoLoad /\ loadResult = Null
    /\ arg = <<>> /\ ret = <<>>

LoadSource ==
    \E path \in SourcePaths, lits \in LiteralLists : OnLoad(path, Render(lits))

NextRewrite == LoadSource

SpecRewrite == InitRewrite /\ [][NextRewrite]_vars

----------------------------------------------------------------------------
(* getAllFiles alone, on chains of nested directories *)

\* The depth of the deepest directory of a chain.
MaxNesting == 5

\* The largest maxDepth getAllFiles is called with.
MaxDepthArg == 6

FileName == <<"addon">> \o Node

\* The chain d/d/.../d below directory 0, directory k being nested k deep.
\* The directories in fileLevels hold the file addon.node.  Directory
\* brokenLevel (if any) holds a dangling link, listed before the
\* directory's other entries or after them.
ChainFS(depth, fileLevels, brokenLevel, brokenFirst) ==
    [k \in 0..depth |->
        LET broken == IF k = brokenLevel THEN <<Broken(<<"gone">>)>> ELSE <<>>
            others == (IF k \in fileLevels THEN <<File(FileName, 20 + k)>>
                       ELSE <<>>)
                      \o (IF k < depth THEN <<Dir(<<"d">>, k + 1)>> ELSE <<>>)
        IN Listing(IF brokenFirst THEN broken \o others ELSE others \o broken)]

ChainFSs ==
    {ChainFS(MaxNesting, levels, b, first) :
        levels \in SUBSET (0..MaxNesting), b \in -1..MaxNesting,
        first \in BOOLEAN}

InitFiles ==
    /\ fs \in ChainFSs
    /\ arg \in [maxDepth : 0..MaxDepthArg]
    /\ pc = "call"
    /\ ret = <<>>
    /\ cfg = <<>> /\ out = <<>> /\ dirs = {} /\ copied = <<>>
    /\ binaryResult = [external |-> <<>>, copiedFiles |-> <<>>]
    /\ wasmExternals = <<>> /\ assetExternals = <<>>
    /\ contents = NoLoad /\ loadResult = Null

CallGetAllFiles ==
    /\ pc = "call"
    /\ ret' = getAllFiles(fs, 0, arg.maxDepth, 0)
    /\ pc' = "done"
    /\ UNCHANGED <<cfg, fs, out, dirs, copied, binaryResult, wasmExternals,
                   assetExternals, contents, loadResult, arg>>

NextFiles == CallGetAllFiles

SpecFiles == InitFiles /\ [][NextFiles]_vars

----------------------------------------------------------------------------
(* detectWasmPackages alone, on node_modules of both layouts *)

ScopeDir == <<"@", "scope">>
Name1 == <<"name">>
Name2 == <<"tool">>
Versions == {<<"1", Dot, "2", Dot, "3">>, <<"0", Dot, "1", Dot, "1">>}

\* The directory of a package: file.wasm in it, in lib/ or in test/.
PackageDir(place, sub) ==
    LET file == File(<<"file">> \o Wasm, 30)
    IN IF place = "top" THEN Listing(<<file>>)
       ELSE Listing(<<Dir(<<place>>, sub)>>)

\* node_modules holding some of: the unscoped package tool and the scoped
\* package @scope/name, each in the flat layout or in the store .pnpm (as
\* tool@<version> and @scope+name@<version>).
LayoutFS(flatTool, flatScoped, storeTool, storeScoped, version, place) ==
    LET pick(b, x) == IF b THEN <<x>> ELSE <<>>
        leaf == Listing(<<File(<<"file">> \o Wasm, 30)>>)
    IN (0 :> Listing(pick(flatTool, Dir(Name2, 1))
                     \o pick(flatScoped, Dir(ScopeDir, 2))
                     \o pick(storeTool \/ storeScoped, Dir(<<Dot, "pnpm">>, 4))))
       @@ (1 :> PackageDir(place, 12))
       @@ (2 :> Listing(<<Dir(Name1, 3)>>))
       @@ (3 :> PackageDir(place, 12))
       @@ (4 :> Listing(pick(storeTool, Dir(Name2 \o <<"@">> \o version, 5))
                        \o pick(storeScoped,
                                Dir(ScopeDir \o <<"+">> \o Name1 \o <<"@">>
                                        \o version, 8))))
       @@ (5 :> Listing(<<Dir(<<"node_modules">>, 6)>>))
       @@ (6 :> Listing(<<Dir(Name2, 7)>>))
       @@ (7 :> PackageDir(place, 12))
       @@ (8 :> Listing(<<Dir(<<"node_modules">>, 9)>>))
       @@ (9 :> Listing(<<Dir(ScopeDir, 10)>>))
       @@ (10 :> Listing(<<Dir(Name1, 11)>>))
       @@ (11 :> PackageDir(place, 12))
       @@ (12 :> leaf)

LayoutFSs ==
    {LayoutFS(ft, fsc, st, ss, v, place) :
        ft \in BOOLEAN, fsc \in BOOLEAN, st \in BOOLEAN, ss \in BOOLEAN,
        v \in Versions, place \in {"top", "lib", "test"}}

InitDetect ==
    /\ fs \in LayoutFSs
    /\ arg = <<>>
    /\ pc = "call"
    /\ ret = <<>>
    /\ cfg = <<>> /\ out = <<>> /\ dirs = {} /\ copied = <<>>
    /\ binaryResult = [external |-> <<>>, copiedFiles |-> <<>>]
    /\ wasmExternals = <<>> /\ assetExternals = <<>>
    /\ contents = NoLoad /\ loadResult = Null

CallDetectWasmPackages ==
    /\ pc = "call"
    /\ ret' = detectWasmPackages(fs)
    /\ pc' = "done"
    /\ UNCHANGED <<cfg, fs, out, dirs, copied, binaryResult, wasmExternals,
                   assetExternals, contents, loadResult, arg>>

NextDetect == CallDetectWasmPackages

SpecDetect == InitDetect /\ [][NextDetect]_vars

----------------------------------------------------------------------------
(* Properties of the build: copies against rewrites *)

\* The path a loaded source line load(<literal>) names, resolved against
\* the output root.
Resolved(text) == Join(<<outputDir, SubSeq(text, 4, Len(text) - 2)>>)

LoadedIs(packageName, file) ==
    /\ pc = "loaded"
    /\ contents.text = LoadOf(ModuleLiteral(SQ, packageName, file))

Loaded == LoadedText(contents.text, loadResult)

CopyRecords(category, packageName, file) ==
    {i \in 1..Len(copied) :
        /\ copied[i].category = category
        /\ copied[i].pkg = packageName
        /\ copied[i].file = file}

LibMod == <<"lib", Slash, "mod">> \o Wasm

\* C1: with wasmPackages copy, preserveStructure true and the default
\* output directory, alpha's lib/mod.wasm is copied byte for byte to
\* dist/assets/wasm/alpha/lib/mod.wasm, and the literal
\* '../node_modules/alpha/lib/mod.wasm' is rewritten to
\* './assets/wasm/alpha/lib/mod.wasm', the copied file.
C1_WasmRoundTrip ==
    (/\ LoadedIs(Alpha, LibMod)
     /\ Strategy(cfg.wasmPackages) = "copy"
     /\ cfg.wasmPackages[1].preserveStructure = Some(TRUE)
     /\ cfg.wasmPackages[1].outputDir = <<>>)
    => LET target == <<"dist", Slash, "assets", Slash, "wasm", Slash, "alpha",
                       Slash>> \o LibMod
       IN /\ target \in DOMAIN out
          /\ out[target] = ReadFile(fs, PackagePath(fs, Alpha), LibMod)
          /\ Loaded = LoadOf(<<SQ, Dot, Slash, "assets", Slash, "wasm", Slash,
                               "alpha", Slash>> \o LibMod \o <<SQ>>)
          /\ Resolved(Loaded) = target

\* C2: with binaryPackages copy and no outputDir, for every package and
\* every .node file copyBinaryFiles copied, the literal naming the file
\* under node_modules is rewritten to a path that resolves, against the
\* output root, to the target the file was copied to.
C2_BinaryRewriteMatchesCopy ==
    (/\ pc = "loaded"
     /\ Strategy(cfg.binaryPackages) = "copy"
     /\ cfg.binaryPackages[1].outputDir = <<>>)
    => \A i \in 1..Len(copied) :
           (/\ copied[i].category = "binary"
            /\ EndsWith(copied[i].file, Node)
            /\ LoadedIs(copied[i].pkg, copied[i].file))
           => Resolved(Loaded) = copied[i].target

\* The category is handled with copy and preserveStructure false.
Flattened(cat) ==
    Strategy(cat) = "copy" /\ cat[1].preserveStructure = Some(FALSE)

\* C3: for wasmPackages or assetPackages with copy and preserveStructure
\* false, the literal naming a file the category copied is rewritten to
\* './<outputDir>/<pkg>-<file with - for />', the path the file was
\* copied to.
C3_FlattenedRewriteMatchesCopy ==
    \A category \in {"wasm", "asset"} :
        LET cat == IF category = "wasm" THEN cfg.wasmPackages
                   ELSE cfg.assetPackages
        IN \A i \in 1..Len(copied) :
               (/\ Flattened(cat)
                /\ copied[i].category = category
                /\ LoadedIs(copied[i].pkg, copied[i].file))
               => /\ Loaded = LoadOf(<<SQ, Dot, Slash>>
                                 \o OrDefault(cat[1].outputDir,
                                              IF category = "wasm"
                                              THEN DefaultWasmOutputDir
                                              ELSE DefaultAssetOutputDir)
                                 \o <<Slash>> \o copied[i].pkg \o <<"-">>
                                 \o ReplaceSlashes(copied[i].file) \o <<SQ>>)
                  /\ Resolved(Loaded) = copied[i].target

\* The strategy the handler that runs at this point of bundle() reads.
StrategyAt(p) ==
    IF p = "binary" THEN Strategy(cfg.binaryPackages)
    ELSE IF p = "wasm" THEN Strategy(cfg.wasmPackages)
    ELSE Strategy(cfg.assetPackages)

\* C5: a category handler whose strategy is neither copy nor inline
\* (external, ignore, an unrecognized string, or none) writes no file and
\* creates no directory under the output root.
C5_OtherStrategiesWriteNothing ==
    [][(pc \in {"binary", "wasm", "asset"}
            /\ StrategyAt(pc) \notin {"copy", "inline"})
        => (out' = out /\ dirs' = dirs)]_vars

\* The three handlers have run with the strategies external, ignore and an
\* unrecognized string, on packages that exist, and the output is empty.
C5_Witness ==
    /\ pc = "build"
    /\ Strategy(cfg.binaryPackages) = "external"
    /\ Strategy(cfg.wasmPackages) = "bogus"
    /\ Strategy(cfg.assetPackages) = "external"
    /\ Includes(binaryResult.external, Alpha)
    /\ Includes(assetExternals, Alpha)
    /\ out = <<>> /\ dirs = {}

\* The packages of a category's list whose directory exists.
Processed(cat) ==
    {packageName \in Range(cat[1].packages[1]) :
        PackagePath(fs, packageName) # -1}

\* C6: under copy, in each of the three categories, every processed
\* package whose directory exists is in the externals the handler returned.
C6_CopyAddsExternal ==
    pc \in {"build", "loaded"}
    => /\ Strategy(cfg.binaryPackages) = "copy"
          => \A p \in Processed(cfg.binaryPackages) :
                 Includes(binaryResult.external, p)
       /\ Strategy(cfg.wasmPackages) = "copy"
          => \A p \in Processed(cfg.wasmPackages) : Includes(wasmExternals, p)
       /\ Strategy(cfg.assetPackages) = "copy"
          => \A p \in Processed(cfg.assetPackages) : Includes(assetExternals, p)

OnlyJson(cat) ==
    Strategy(cat) = "copy" /\ cat[1].extensions = Some(<<Json>>)

\* C9: with assetPackages copy and extensions ['.json'], every file the
\* asset handler copied ends in .json, and a literal naming a .yaml file of
\* a package is not rewritten and the file is not copied.
C9_ExtensionSetRespected ==
    OnlyJson(cfg.assetPackages)
    => /\ \A i \in 1..Len(copied) :
              copied[i].category = "asset" => EndsWith(copied[i].file, Json)
       /\ \A pf \in PackageFiles :
              (EndsWith(pf[2], Yaml) /\ LoadedIs(pf[1], pf[2]))
              => /\ loadResult = Null
                 /\ CopyRecords("asset", pf[1], pf[2]) = {}

\* The asset handler copied alpha's data.json and left conf.yaml, and the
\* source naming conf.yaml was loaded.
C9_Witness ==
    /\ OnlyJson(cfg.assetPackages)
    /\ LoadedIs(Alpha, <<"conf">> \o Yaml)
    /\ CopyRecords("asset", Alpha, <<"data">> \o Json) # {}
    /\ loadResult = Null

\* C10: with assetPackages copy, a literal naming a file of a package that
\* ends in a configured asset extension is rewritten to
\* './<assetOutputDir>/<pkg>/...'.
C10_AssetLiteralsRewritten ==
    \A pf \in PackageFiles :
        (/\ Strategy(cfg.assetPackages) = "copy"
         /\ \E e \in Range(AssetExtensions(cfg.assetPackages)) :
                EndsWith(pf[2], e)
         /\ LoadedIs(pf[1], pf[2]))
        => /\ loadResult.changed
           /\ LET prefix == <<"load", "(", SQ, Dot, Slash>>
                                \o OrDefault(cfg.assetPackages[1].outputDir,
                                             DefaultAssetOutputDir)
                                \o <<Slash>> \o pf[1] \o <<Slash>>
              IN /\ Len(Loaded) > Len(prefix)
                 /\ SubSeq(Loaded, 1, Len(prefix)) = prefix

----------------------------------------------------------------------------
(* Properties of the hook on sources with several literals *)

\* The extensions of the categories whose strategy is copy.
ActiveExtensions(c) ==
    (IF Strategy(c.wasmPackages) = "copy" THEN {Wasm} ELSE {})
        \cup (IF Strategy(c.binaryPackages) = "copy" THEN {Node} ELSE {})
        \cup (IF Strategy(c.assetPackages) = "copy"
              THEN Range(AssetExtensions(c.assetPackages)) ELSE {})

\* The literal holds a segment /node_modules/<pkg>/ and ends in an
\* extension of a category whose strategy is copy.
Qualifies(c, literal) ==
    LET path == SubSeq(literal, 2, Len(literal) - 1)
    IN /\ \E j \in 1..Len(path) :
              /\ IsNodeModulesAt(path, j)
              /\ \E k \in (j + 4)..Len(path) :
                     /\ path[k] = Slash
                     /\ \A m \in (j + 3)..(k - 1) : path[m] # Slash
       /\ \E e \in ActiveExtensions(c) : EndsWith(path, e)

\* C4: the hook changes only the literals that hold a /node_modules/<pkg>/
\* segment and end in an extension of an active copy category; every other
\* literal, and the text between the literals, is as it was.
C4_OnlyMatchingLiteralsChange ==
    pc = "loaded"
    => LET before == SplitOn(contents.text, "+")
           after == SplitOn(LoadedText(contents.text, loadResult), "+")
       IN /\ Len(after) = Len(before)
          /\ \A n \in 1..Len(before) :
                 ~Qualifies(cfg, before[n]) => after[n] = before[n]

----------------------------------------------------------------------------
(* Properties of detectWasmPackages *)

\* The package that owns a .wasm file found below node_modules: the
\* directory below the store's node_modules for a path of the store, the
\* first directory otherwise; a scope and a name when it starts with @.
OwnerName(wasmFile) ==
    LET parts == SplitOn(wasmFile, Slash)
        first == IF parts[1] = <<Dot, "pnpm">> THEN 4 ELSE 1
    IN IF Head(parts[first]) = "@"
       THEN parts[first] \o <<Slash>> \o parts[first + 1]
       ELSE parts[first]

\* C7: the name derived from the path of a discovered .wasm file is the
\* name of the package that owns it: @scope/name for
\* .pnpm/@scope+name@1.2.3/node_modules/@scope/name/file.wasm, name for
\* .pnpm/name@1.2.3/node_modules/name/file.wasm, and for a flat path the
\* first segment, or the first two when the first starts with @.
C7_DetectedNameIsOwner ==
    pc = "done"
    => LET wasmFiles == WasmFilesIn(fs)
       IN /\ \A i \in 1..Len(wasmFiles) :
                 DetectName(wasmFiles[i]) = OwnerName(wasmFiles[i])
          /\ Range(ret) = {OwnerName(wasmFiles[i]) : i \in 1..Len(wasmFiles)}

----------------------------------------------------------------------------
(* Properties of getAllFiles *)

\* The regular files reachable from directory dir through at most depth
\* nested directories, as paths relative to dir.
RECURSIVE FilesWithin(_, _, _)
FilesWithin(f, dir, depth) ==
    LET items == Range(f[dir].items)
    IN {item.name : item \in {x \in items : x.kind = "file"}}
           \cup (IF depth = 0 THEN {}
                 ELSE UNION {{Join(<<item.name, sub>>) :
                                 sub \in FilesWithin(f, item.ref, depth - 1)} :
                             item \in {x \in items : x.kind = "dir"}})

\* C8: getAllFiles(dir, maxDepth) returns exactly the regular files
\* reachable from dir through at most maxDepth nested directories.
C8_DepthBoundedEnumeration ==
    pc = "done" => Range(ret) = FilesWithin(fs, 0, arg.maxDepth)

----------------------------------------------------------------------------
(* isBinaryPackage alone, on package directories of several contents *)

\* The names of the files a package directory may hold.
ClassifyFiles ==
    {<<"addon">> \o Node, <<"notes", Dot, "txt">>, <<"readme", Dot, "txt">>,
     <<"libfoo", Dot, "so", Dot, "1">>, <<"binding", Dot, "gyp">>}

ClassifyNames == {<<"sharp">>, <<"better", "-", "sqlite3">>, <<"plain">>}

\* How deep below the package directory the files lie.
ClassifyDepths == {0, 2, 4}

\* Some total order of a set of names, as readdirSync lists them.
RECURSIVE Listed(_)
Listed(names) ==
    IF names = {} THEN <<>>
    ELSE LET n == CHOOSE x \in names : TRUE
         IN <<File(n, 40)>> \o Listed(names \ {n})

\* The package directory 0 with the files in names depth directories down.
ClassifyFS(names, depth) ==
    [k \in 0..depth |->
        IF k = depth THEN Listing(Listed(names))
        ELSE Listing(<<Dir(<<"sub">>, k + 1)>>)]

\* The package directories: absent (no directory 0), or holding some of the
\* files at one of the depths.
ClassifyFSs ==
    {<<>>} \cup {ClassifyFS(names, depth) :
                    names \in SUBSET ClassifyFiles, depth \in ClassifyDepths}

InitClassify ==
    /\ fs \in ClassifyFSs
    /\ arg \in [packageName : ClassifyNames, packagePath : {0}]
    /\ pc = "call"
    /\ ret = <<>>
    /\ cfg = <<>> /\ out = <<>> /\ dirs = {} /\ copied = <<>>
    /\ binaryResult = [external |-> <<>>, copiedFiles |-> <<>>]
    /\ wasmExternals = <<>> /\ assetExternals = <<>>
    /\ contents = NoLoad /\ loadResult = Null

CallIsBinaryPackage ==
    /\ pc = "call"
    /\ ret' = isBinaryPackage(fs, arg.packageName, arg.packagePath)
    /\ pc' = "done"
    /\ UNCHANGED <<cfg, fs, out, dirs, copied, binaryResult, wasmExternals,
                   assetExternals, contents, loadResult, arg>>

NextClassify == CallIsBinaryPackage

SpecClassify == InitClassify /\ [][NextClassify]_vars

----------------------------------------------------------------------------
(* Properties of isBinaryPackage *)

\* The names of all regular files below the package directory, at any depth.
AllFileNames(f) ==
    UNION {{x.name : x \in {y \in Range(f[d].items) : y.kind = "file"}} :
           d \in DOMAIN f}

\* The files of the package directory within the default depth bound.
Enumerated(f, dir) ==
    IF dir \in DOMAIN f THEN FilesWithin(f, dir, DefaultMaxDepth) ELSE {}

\* C11: isBinaryPackage is true for every name of the allow-list whatever
\* the directory holds (absent and empty included), true when the
\* enumerated files include a path ending in .node, and false for a name
\* outside the allow-list whose directory holds only .txt files.
C11_IsBinaryPackage ==
    pc = "done"
    => /\ Includes(KNOWN_BINARY_PACKAGES, arg.packageName) => ret = TRUE
       /\ (\E file \in Enumerated(fs, arg.packagePath) : EndsWith(file, Node))
          => ret = TRUE
       /\ (/\ ~Includes(KNOWN_BINARY_PACKAGES, arg.packageName)
           /\ AllFileNames(fs) # {}
           /\ \A name \in AllFileNames(fs) : EndsWith(name, <<Dot, "txt">>))
          => ret = FALSE

\* A package of the allow-list whose directory is absent was classified
\* binary.
C11_Witness ==
    /\ pc = "done"
    /\ arg.packageName = <<"sharp">>
    /\ ~existsSync(fs, arg.packagePath)
    /\ ret = TRUE

\* The path ends in .so.<digit>
IsVersionedSo(file) ==
    /\ Len(file) >= 4
    /\ SubSeq(file, Len(file) - 3, Len(file) - 1) = <<Dot, "so", Dot>>
    /\ file[Len(file)] \in Digits

\* C12: a package outside the allow-list with a file named like
\* libfoo.so.1 within the depth bound is classified binary, as it is for
\* every file copyBinaryFiles would copy.
C12_VersionedSharedLibrary ==
    (/\ pc = "done"
     /\ ~Includes(KNOWN_BINARY_PACKAGES, arg.packageName))
    => /\ (\E file \in Enumerated(fs, arg.packagePath) : IsVersionedSo(file))
          => ret = TRUE
       /\ (\E file \in Enumerated(fs, arg.packagePath) :
               MatchesBinaryPattern(file))
          => ret = TRUE

----------------------------------------------------------------------------
(* The handlers on trees of both layouts and with files that cannot be     *)
(* copied, for every combination of strategy and package list, and run a   *)
(* second time on the output of the first run.                             *)

\* node_modules with alpha in the flat layout and gamma only in the store:
\*   alpha/a.wasm   .pnpm/gamma@1.0.0/node_modules/gamma/g.wasm
StoreFS ==
    (0 :> Listing(<<Dir(Alpha, 1), Dir(<<Dot, "pnpm">>, 2)>>))
        @@ (1 :> Listing(<<File(<<"a">> \o Wasm, 11)>>))
        @@ (2 :> Listing(<<Dir(Gamma \o <<"@", "1", Dot, "0", Dot, "0">>, 3)>>))
        @@ (3 :> Listing(<<Dir(<<"node_modules">>, 4)>>))
        @@ (4 :> Listing(<<Dir(Gamma, 5)>>))
        @@ (5 :> Listing(<<File(<<"g">> \o Wasm, 21)>>))

\* node_modules where the first file of each kind in alpha cannot be read:
\*   alpha/a.node* alpha/b.node alpha/a.wasm* alpha/b.wasm alpha/a.json*
\*   alpha/b.json   beta/q.node beta/q.wasm beta/q.json
LockedFS ==
    (0 :> Listing(<<Dir(Alpha, 1), Dir(Beta, 2)>>))
        @@ (1 :> Listing(<<File(<<"a">> \o Node, Unreadable),
                           File(<<"b">> \o Node, 31),
                           File(<<"a">> \o Wasm, Unreadable),
                           File(<<"b">> \o Wasm, 32),
                           File(<<"a">> \o Json, Unreadable),
                           File(<<"b">> \o Json, 33)>>))
        @@ (2 :> Listing(<<File(<<"q">> \o Node, 34), File(<<"q">> \o Wasm, 35),
                           File(<<"q">> \o Json, 36)>>))

HandlerFSs == {ProjectFS, StoreFS, LockedFS}

\* Each category is absent, or present with strategy copy, external or
\* none; the three categories share the package list: none, empty, beta
\* alone, or alpha, beta and gamma.
HandlerConfigs ==
    LET Cat(choice, packages) ==
            IF choice = "absent" THEN Undefined
            ELSE Category(choice, packages, <<>>, Undefined, Undefined)
        Choices == {"absent", "copy", "external", "undefined"}
    IN {[binaryPackages |-> Cat(b, packages),
         wasmPackages |-> Cat(w, packages),
         assetPackages |-> Cat(a, packages)] :
          b \in Choices, w \in Choices, a \in Choices,
          packages \in {Undefined, Some(<<>>), Some(<<Beta>>),
                        Some(<<Alpha, Beta, Gamma>>)}}

InitHandlers ==
    /\ cfg \in HandlerConfigs
    /\ fs \in HandlerFSs
    /\ pc = "binary"
    /\ out = <<>> /\ dirs = {} /\ copied = <<>>
    /\ binaryResult = [external |-> <<>>, copiedFiles |-> <<>>]
    /\ wasmExternals = <<>> /\ assetExternals = <<>>
    /\ contents = NoLoad /\ loadResult = Null
    /\ arg = <<>> /\ ret = <<>>

\* The handlers' part of bundle() is entered a second time, with the same
\* configuration and tree; arg keeps what the first run left.
RunAgain ==
    /\ pc = "build"
    /\ arg = <<>>
    /\ arg' = [out |-> out, dirs |-> dirs, binaryResult |-> binaryResult,
               wasmExternals |-> wasmExternals,
               assetExternals |-> assetExternals]
    /\ pc' = "binary"
    /\ UNCHANGED <<cfg, fs, out, dirs, copied, binaryResult, wasmExternals,
                   assetExternals, contents, loadResult, ret>>

NextHandlers ==
    \/ HandleBinaryPackages
    \/ HandleWasmPackages
    \/ HandleAssetPackages
    \/ RunAgain

SpecHandlers == InitHandlers /\ [][NextHandlers]_vars

----------------------------------------------------------------------------
(* Properties of the handlers *)

\* C13: a second run of the handlers with the same configuration on an
\* unchanged tree leaves the same files with the same contents in the same
\* directories and returns the same externals and copied-file list.
C13_MaterializationIdempotent ==
    (pc = "build" /\ arg # <<>>)
    => /\ out = arg.out
       /\ dirs = arg.dirs
       /\ binaryResult = arg.binaryResult
       /\ wasmExternals = arg.wasmExternals
       /\ assetExternals = arg.assetExternals

\* The second run has ended after copies of the Binary and of the Wasm
\* category.
C13_Witness ==
    /\ pc = "build" /\ arg # <<>>
    /\ Strategy(cfg.binaryPackages) = "copy"
    /\ Strategy(cfg.wasmPackages) = "copy"
    /\ binaryResult.copiedFiles # <<>>
    /\ \E i \in 1..Len(copied) : copied[i].category = "wasm"
    /\ out = arg.out /\ out # <<>>

\* The packages among names whose directory node_modules/<name> exists.
Existing(names) == {p \in names : PackagePath(fs, p) # -1}

\* The directories of node_modules that isBinaryPackage classifies binary.
DetectedBinary ==
    {item.name : item \in {x \in Range(fs[nodeModulesPath].items) :
                              /\ x.kind = "dir" /\ Head(x.name) # Dot
                              /\ isBinaryPackage(fs, x.name, x.ref)}}

\* The packages a category processes: the configured list when it is not
\* empty, the auto-detected set when it is empty or absent.
ExpectedPackages(cat, detected) ==
    IF cat[1].packages # Undefined /\ cat[1].packages[1] # <<>>
    THEN Range(cat[1].packages[1])
    ELSE detected

\* C14: for the Binary and the Wasm category the packages processed are
\* the configured list, verbatim, when it is not empty, and the
\* auto-detected set when the list is empty or absent ([] as absent).
\* Under strategy external the externals returned are the processed
\* packages that exist.
C14_PackageListOrAutoDetect ==
    pc = "build"
    => /\ (cfg.binaryPackages # Undefined
              /\ BinaryStrategy(cfg.binaryPackages) = "external")
          => Range(binaryResult.external)
                 = Existing(ExpectedPackages(cfg.binaryPackages, DetectedBinary))
       /\ Strategy(cfg.wasmPackages) = "external"
          => Range(wasmExternals)
                 = Existing(ExpectedPackages(cfg.wasmPackages,
                                             Range(detectWasmPackages(fs))))

\* The category's configuration with the strategy s written in.
WithStrategy(cat, s) == Some([cat[1] EXCEPT !.strategy = s])

NoStrategy(cat) == cat # Undefined /\ Strategy(cat) = "undefined"

\* C15: a category present without a strategy is handled as external for
\* Binary and as copy for Wasm and for Asset: the handler leaves the output
\* and returns the externals it would with that strategy written in.
C15_DefaultStrategy ==
    [][/\ (pc = "binary" /\ NoStrategy(cfg.binaryPackages))
          => LET r == handleBinaryPackages(fs, World,
                          [cfg EXCEPT !.binaryPackages =
                               WithStrategy(cfg.binaryPackages, "external")],
                          outputDir)
             IN /\ out' = r.w.out /\ dirs' = r.w.dirs
                /\ binaryResult' = [external |-> r.external,
                                    copiedFiles |-> r.copiedFiles]
       /\ (pc = "wasm" /\ NoStrategy(cfg.wasmPackages))
          => LET r == handleWasmPackages(fs, World,
                          [cfg EXCEPT !.wasmPackages =
                               WithStrategy(cfg.wasmPackages, "copy")])
             IN /\ out' = r.w.out /\ dirs' = r.w.dirs
                /\ wasmExternals' = r.externals
       /\ (pc = "asset" /\ NoStrategy(cfg.assetPackages))
          => LET r == handleAssetPackages(fs, World,
                          [cfg EXCEPT !.assetPackages =
                               WithStrategy(cfg.assetPackages, "copy")])
             IN /\ out' = r.w.out /\ dirs' = r.w.dirs
                /\ assetExternals' = r.externals]_vars

\* The files of a package's directory that a category copies, in the
\* order the handler meets them.
MatchingFiles(category, packagePath) ==
    IF category = "binary"
    THEN SelectSeq(getAllFiles(fs, packagePath, DefaultMaxDepth, 0),
                   MatchesBinaryPattern)
    ELSE IF category = "wasm" THEN Glob(fs, packagePath, <<Wasm>>, FALSE)
    ELSE Glob(fs, packagePath, AssetExtensions(cfg.assetPackages), FALSE)

CategoryConfig(category) ==
    IF category = "binary" THEN cfg.binaryPackages
    ELSE IF category = "wasm" THEN cfg.wasmPackages
    ELSE cfg.assetPackages

\* C16: a copy failure is isolated to the file that failed: under copy,
\* every matching file that can be read, of every listed package whose
\* directory exists, is copied, whatever file of the same or of an earlier
\* package failed.
C16_CopyFailureIsolated ==
    pc = "build"
    => \A category \in {"binary", "wasm", "asset"} :
           LET cat == CategoryConfig(category) IN
           (Strategy(cat) = "copy" /\ cat[1].packages # Undefined)
           => \A p \in Existing(Range(cat[1].packages[1])) :
                  LET files == MatchingFiles(category, PackagePath(fs, p))
                  IN \A i \in 1..Len(files) :
                         ReadFile(fs, PackagePath(fs, p), files[i]) # Unreadable
                         => CopyRecords(category, p, files[i]) # {}

\* C17: when node_modules/<name> is absent and the package is in the store
\* as .pnpm/<name>@<version>/node_modules/<name>, the Wasm handler under
\* copy resolves the store directory and copies its .wasm files.
C17_StoreResolution ==
    (/\ pc = "build"
     /\ Strategy(cfg.wasmPackages) = "copy"
     /\ cfg.wasmPackages[1].packages # Undefined)
    => \A p \in Range(cfg.wasmPackages[1].packages[1]) :
           (PackagePath(fs, p) = -1 /\ PnpmDirs(fs, p) # <<>>)
           => LET files == Glob(fs, PnpmDirs(fs, p)[1], <<Wasm>>, FALSE)
              IN \A i \in 1..Len(files) : CopyRecords("wasm", p, files[i]) # {}

\* The configuration with strategy s written into the category handled at
\* point p of bundle().
ConfigWith(p, s) ==
    IF p = "binary"
    THEN [cfg EXCEPT !.binaryPackages = WithStrategy(cfg.binaryPackages, s)]
    ELSE IF p = "wasm"
    THEN [cfg EXCEPT !.wasmPackages = WithStrategy(cfg.wasmPackages, s)]
    ELSE [cfg EXCEPT !.assetPackages = WithStrategy(cfg.assetPackages, s)]

\* C18: an unrecognized strategy string is no error: each handler returns
\* no externals and writes nothing, which is what it does with strategy
\* ignore on the same configuration and tree.
C18_UnknownStrategyAsIgnore ==
    [][(pc \in {"binary", "wasm", "asset"} /\ StrategyAt(pc) = "bogus")
        => /\ out' = out /\ dirs' = dirs
           /\ pc = "binary"
              => LET r == handleBinaryPackages(fs, World,
                                               ConfigWith(pc, "ignore"),
                                               outputDir)
                 IN /\ binaryResult' = [external |-> <<>>, copiedFiles |-> <<>>]
                    /\ r.external = <<>> /\ r.copiedFiles = <<>>
                    /\ r.w.out = out' /\ r.w.dirs = dirs'
           /\ pc = "wasm"
              => LET r == handleWasmPackages(fs, World, ConfigWith(pc, "ignore"))
                 IN /\ wasmExternals' = <<>> /\ r.externals = <<>>
                    /\ r.w.out = out' /\ r.w.dirs = dirs'
           /\ pc = "asset"
              => LET r == handleAssetPackages(fs, World, ConfigWith(pc, "ignore"))
                 IN /\ assetExternals' = <<>> /\ r.externals = <<>>
                    /\ r.w.out = out' /\ r.w.dirs = dirs'
           /\ pc' # pc]_vars

\* The three handlers have run with an unrecognized strategy on packages
\* that exist; nothing was written, no external was returned, and the build
\* is at the engine.
C18_Witness ==
    /\ pc = "build"
    /\ Strategy(cfg.binaryPackages) = "bogus"
    /\ Strategy(cfg.wasmPackages) = "bogus"
    /\ Strategy(cfg.assetPackages) = "bogus"
    /\ PackagePath(fs, Alpha) # -1
    /\ out = <<>> /\ dirs = {}
    /\ binaryResult.external = <<>>
    /\ wasmExternals = <<>> /\ assetExternals = <<>>

----------------------------------------------------------------------------
(* Properties of the hook's result *)

\* The extension of a source path, without the dot.
Extension(path) == path[Len(path)]

\* C19: the hook returns null when no literal was replaced, and otherwise
\* the new text with the file's own language tag: ts for .ts, tsx for
\* .tsx, js for .js and jsx for .jsx.
C19_LoaderKeepsLanguage ==
    pc = "loaded"
    => \/ loadResult = Null
       \/ /\ loadResult.changed
          /\ loadResult.contents # contents.text
          /\ loadResult.loader = Extension(contents.path)

----------------------------------------------------------------------------
(* Properties of the binary copy's layout *)

\* C20: copyBinaryFiles writes a matched file to <outputRoot>/<D>/<pkg>/<file>
\* when preserveStructure is true and to <outputRoot>/<D>/<pkg>-<file with -
\* for /> when it is false, D being binaryPackages.outputDir when
\* configured, else node_modules (preserving) or binaries (flattened).
C20_BinaryTargetLayout ==
    Strategy(cfg.binaryPackages) = "copy"
    => LET cat == cfg.binaryPackages
           preserve == cat[1].preserveStructure # Some(FALSE)
           D == OrDefault(cat[1].outputDir,
                          IF preserve THEN <<"node_modules">>
                          ELSE <<"binaries">>)
       IN \A i \in 1..Len(copied) :
              copied[i].category = "binary"
              => copied[i].target
                     = IF preserve
                       THEN Join(<<outputDir, D, copied[i].pkg, copied[i].file>>)
                       ELSE Join(<<outputDir, D,
                                   copied[i].pkg \o <<"-">>
                                       \o ReplaceSlashes(copied[i].file)>>)

----------------------------------------------------------------------------
(* Properties of strategy external *)

\* The packages the Wasm handler goes through: wasmConfig.packages when
\* set, else the detected ones.
WasmPackagesToHandle ==
    IF cfg.wasmPackages[1].packages = Undefined
    THEN Range(detectWasmPackages(fs))
    ELSE Range(cfg.wasmPackages[1].packages[1])

\* C21: under strategy external the handler returns as externals exactly
\* the packages it goes through whose directory exists, and copies
\* nothing; a package whose directory is absent is passed over and is not
\* among the externals.
C21_ExternalMarksExisting ==
    [][/\ (pc = "binary" /\ Strategy(cfg.binaryPackages) = "external")
          => /\ Range(binaryResult'.external)
                    = Existing(Range(BinaryPackagesToCheck(fs, cfg.binaryPackages)))
             /\ binaryResult'.copiedFiles = <<>>
             /\ out' = out /\ dirs' = dirs /\ copied' = copied
             /\ pc' = "wasm"
       /\ (pc = "wasm" /\ Strategy(cfg.wasmPackages) = "external")
          => /\ Range(wasmExternals') = Existing(WasmPackagesToHandle)
             /\ out' = out /\ dirs' = dirs /\ copied' = copied
             /\ pc' = "asset"]_vars

\* The Binary and the Wasm handler have run under external on a list with
\* a package whose directory is absent and packages whose directory
\* exists.
C21_Witness ==
    /\ pc = "asset"
    /\ Strategy(cfg.binaryPackages) = "external"
    /\ Strategy(cfg.wasmPackages) = "external"
    /\ cfg.binaryPackages[1].packages = Some(<<Alpha, Beta, Gamma>>)
    /\ PackagePath(fs, Gamma) = -1
    /\ binaryResult.external = <<Alpha, Beta>>
    /\ wasmExternals = <<Alpha, Beta>>
    /\ out = <<>>

----------------------------------------------------------------------------
(* bundler.ts: the Bundler instance, its build options and repeated bundle() *)

NODE_BUILTINS ==
    <<<<"assert">>, <<"buffer">>, <<"child_process">>, <<"cluster">>,
      <<"crypto">>, <<"dgram">>, <<"dns">>, <<"domain">>, <<"events">>,
      <<"fs">>, <<"http">>, <<"https">>, <<"net">>, <<"os">>, <<"path">>,
      <<"punycode">>, <<"querystring">>, <<"readline">>, <<"stream">>,
      <<"string_decoder">>, <<"tls">>, <<"tty">>, <<"url">>, <<"util">>,
      <<"v8">>, <<"vm">>, <<"zlib">>, <<"async_hooks">>, <<"http2">>,
      <<"perf_hooks">>, <<"trace_events">>, <<"inspector">>,
      <<"worker_threads">>, <<"fs", Slash, "promises">>>>

\* The constructor's defaults under the user's configuration: format cjs
\* and external [] when the user leaves them out.
normalizeConfig(config) ==
    [config EXCEPT !.format = IF @ = Undefined THEN Some("cjs") ELSE @,
                   !.external = IF @ = Undefined THEN Some(<<>>) ELSE @]

\* config.esbuildOptions?.plugins || []
UserPlugins(config) ==
    IF config.esbuildOptions = Undefined
           \/ config.esbuildOptions[1].plugins = Undefined
    THEN <<>>
    ELSE config.esbuildOptions[1].plugins[1]

\* getPlugins of plugins.ts, the module bundler.ts imports: the Wasm path
\* replacer when the Wasm strategy is copy, then the user's plugins.
getPlugins(config) ==
    (IF Strategy(config.wasmPackages) = "copy"
     THEN <<"wasm-path-replacer">> ELSE <<>>) \o UserPlugins(config)

\* getBuiltinPlugins of plugins/index.ts
getBuiltinPlugins(config) ==
    (IF \/ Strategy(config.wasmPackages) = "copy"
        \/ Strategy(config.binaryPackages) = "copy"
        \/ Strategy(config.assetPackages) = "copy"
     THEN <<"asset-path-replacer">> ELSE <<>>)
        \o (IF config.format = Some("esm") THEN <<"esm-compatibility">> ELSE <<>>)
        \o <<"node-builtins">>

\* getAllPlugins of plugins/index.ts
getAllPlugins(config) == getBuiltinPlugins(config) \o UserPlugins(config)

\* import { createRequire } from 'module';
ImportCreateRequire ==
    <<"import", " ", "{", " ", "createRequire", " ", "}", " ", "from", " ",
      SQ, "module", SQ, ";">>

\* const require = createRequire(import.meta.url);
ConstRequire ==
    <<"const", " ", "require", " ", "=", " ", "createRequire", "(", "import",
      Dot, "meta", Dot, "url", ")", ";">>

\* A key of the user's esbuildOptions, when the user set it.
UserOption(config, key) ==
    IF config.esbuildOptions = Undefined THEN Undefined
    ELSE config.esbuildOptions[1][key]

\* The options buildEsbuildOptions returns: the computed keys, then the
\* user's esbuildOptions spread over them, then the plugins.
buildEsbuildOptions(config) ==
    LET external == (IF config.external = Undefined THEN <<>>
                     ELSE config.external[1]) \o NODE_BUILTINS
        allPlugins == getPlugins(config)
        banner == IF config.format = Some("esm")
                  THEN Some(ImportCreateRequire \o ConstRequire)
                  ELSE Undefined
    IN [format |-> config.format,
        external |-> IF UserOption(config, "external") # Undefined
                     THEN UserOption(config, "external")[1] ELSE external,
        banner |-> IF UserOption(config, "banner") # Undefined
                   THEN UserOption(config, "banner") ELSE banner,
        plugins |-> allPlugins]

\* The most calls of bundle() on one instance.
MaxBundles == 2

\* No node_modules directory in the project.
NoNodeModules == <<>>

Express == <<"express">>
Pg == <<"pg">>

\* The configurations the instances are constructed with: each category
\* absent or with a strategy, the package list left out or alpha, beta;
\* external left out or express; esbuildOptions left out, with a plugin, or
\* with a plugin and an external list; format left out or esm.
BundleConfigs ==
    LET Cat(choice, packages) ==
            IF choice = "absent" THEN Undefined
            ELSE Category(choice, packages, <<>>, Undefined, Undefined)
    IN {[binaryPackages |-> Cat(b, packages),
         wasmPackages |-> Cat(w, packages),
         assetPackages |-> Cat(a, packages),
         external |-> external,
         format |-> format,
         esbuildOptions |-> options] :
          b \in {"absent", "copy", "external"},
          w \in {"absent", "copy", "external", "inline"},
          a \in {"absent", "external"},
          packages \in {Undefined, Some(<<Alpha, Beta>>)},
          external \in {Undefined, Some(<<Express>>)},
          format \in {Undefined, Some("esm")},
          options \in {Undefined,
                       Some([external |-> Undefined, banner |-> Undefined,
                             plugins |-> Some(<<"user-plugin">>)]),
                       Some([external |-> Some(<<Pg>>), banner |-> Undefined,
                             plugins |-> Some(<<"user-plugin">>)])}}

\* arg keeps config.external as the constructor left it and the externals
\* list each call passed to the engine; ret is the options of the last
\* call.
InitBundle ==
    /\ cfg \in {normalizeConfig(c) : c \in BundleConfigs}
    /\ fs \in {ProjectFS, NoNodeModules}
    /\ pc = "binary"
    /\ out = <<>> /\ dirs = {} /\ copied = <<>>
    /\ binaryResult = [external |-> <<>>, copiedFiles |-> <<>>]
    /\ wasmExternals = <<>> /\ assetExternals = <<>>
    /\ contents = NoLoad /\ loadResult = Null
    /\ arg = [original |-> cfg.external, passed |-> <<>>]
    /\ ret = <<>>

\* bundle(), lines 133-138: the handlers' externals are appended to
\* config.external, the options are built and handed to the engine.
Build ==
    /\ pc = "build"
    /\ LET originalExternal == IF cfg.external = Undefined THEN <<>>
                               ELSE cfg.external[1]
           config == [cfg EXCEPT !.external =
                          Some(originalExternal \o binaryResult.external
                                   \o (wasmExternals \o assetExternals))]
           esbuildOptions == buildEsbuildOptions(config)
       IN /\ cfg' = config
          /\ ret' = esbuildOptions
          /\ arg' = [arg EXCEPT !.passed = Append(@, esbuildOptions.external)]
    /\ pc' = "built"
    /\ UNCHANGED <<fs, out, dirs, copied, binaryResult, wasmExternals,
                   assetExternals, contents, loadResult>>

\* bundle() is called again on the same instance.
BundleAgain ==
    /\ pc = "built"
    /\ Len(arg.passed) < MaxBundles
    /\ pc' = "binary"
    /\ UNCHANGED <<cfg, fs, out, dirs, copied, binaryResult, wasmExternals,
                   assetExternals, contents, loadResult, arg, ret>>

NextBundle ==
    \/ HandleBinaryPackages
    \/ HandleWasmPackages
    \/ HandleAssetPackages
    \/ Build
    \/ BundleAgain

SpecBundle == InitBundle /\ [][NextBundle]_vars

----------------------------------------------------------------------------
(* Properties of the externals handed to the engine *)

\* The externals the handlers returned in the call that has just built.
HandlerExternals ==
    Range(binaryResult.external) \cup Range(wasmExternals)
        \cup Range(assetExternals)

\* C22: the externals list handed to the engine holds every Node.js
\* built-in, every package the Binary, Wasm and Asset handlers returned as
\* external, and the user's configured externals, whatever the user's
\* esbuildOptions hold.
C22_ExternalsReachEngine ==
    pc = "built"
    => /\ Range(NODE_BUILTINS) \subseteq Range(ret.external)
       /\ HandlerExternals \subseteq Range(ret.external)
       /\ Range(arg.original[1]) \subseteq Range(ret.external)

\* C23: every call of bundle() on the instance hands the same externals
\* list to the engine, and config.external after each call is what it was
\* before the first.
C23_NoCumulativeState ==
    pc = "built"
    => /\ \A i \in 1..Len(arg.passed) : arg.passed[i] = arg.passed[1]
       /\ cfg.external = arg.original

----------------------------------------------------------------------------
(* getAllFiles step by step, on directory graphs with links and cycles.    *)
(*                                                                         *)
(* arg holds the call: the start directory, maxDepth, the frames of the    *)
(* calls in progress (innermost last) and the log of the directories       *)
(* readdirSync was called on.  A frame is one activation of getAllFiles:   *)
(* its directory, its currentDepth, readdirSync's items, the index of the  *)
(* item the loop is at, and the files collected so far.                    *)

\* The largest maxDepth the walk is called with.
MaxWalkDepth == 3

\* A directory id that is not in the graph.
AbsentDir == 9

Frame(f, dir, currentDepth) ==
    [dir |-> dir, depth |-> currentDepth, items |-> f[dir].items, i |-> 1,
     files |-> <<>>]

\* The entry of getAllFiles(dir, maxDepth, currentDepth): it returns [] at
\* once when the directory does not exist or lies deeper than maxDepth; it
\* calls readdirSync, which throws on an unreadable directory (the catch
\* returns the empty files); else the loop starts.
Enter(f, dir, maxDepth, currentDepth) ==
    IF ~existsSync(f, dir) \/ currentDepth > maxDepth
    THEN [kind |-> "returns", reads |-> {}]
    ELSE IF ~f[dir].ok
    THEN [kind |-> "returns", reads |-> {[dir |-> dir, depth |-> currentDepth]}]
    ELSE [kind |-> "frame", reads |-> {[dir |-> dir, depth |-> currentDepth]},
          frame |-> Frame(f, dir, currentDepth)]

\* The loop's branch for a directory with both depth tests left out.
VisitUnbounded(f, item, maxDepth, currentDepth) ==
    IF existsSync(f, item.ref) /\ f[item.ref].ok
    THEN [kind |-> "frame",
          reads |-> {[dir |-> item.ref, depth |-> currentDepth + 1]},
          frame |-> Frame(f, item.ref, currentDepth + 1)]
    ELSE [kind |-> "returns", reads |-> {}]

\* What the loop does with an item that is a directory: the recursive call
\* when currentDepth < maxDepth, nothing otherwise.
Visit(f, item, maxDepth, currentDepth) ==
    IF currentDepth < maxDepth
    THEN Enter(f, item.ref, maxDepth, currentDepth + 1)
    ELSE [kind |-> "skips", reads |-> {}]

\* The innermost frame and the item its loop is at.
Top == arg.stack[Len(arg.stack)]
AtItem == Top.i <= Len(Top.items)
Item == Top.items[Top.i]

\* The frames with the innermost one replaced.
WithTop(frame) == [arg.stack EXCEPT ![Len(arg.stack)] = frame]

\* join(item, f) of an entry's name and a relative path below it: neither
\* holds a . or .. segment, so the join puts a / between them.
JoinUnder(name, file) == name \o <<Slash>> \o file

\* The frames after the innermost call returned files: the caller appends
\* them under the item's name and goes to its next item; the outermost
\* call's return leaves no frame.
Returned(files) ==
    LET n == Len(arg.stack) IN
    IF n = 1 THEN <<>>
    ELSE LET caller == arg.stack[n - 1]
             item == caller.items[caller.i]
         IN [SubSeq(arg.stack, 1, n - 1) EXCEPT ![n - 1] =
                [caller EXCEPT !.i = @ + 1,
                               !.files = @ \o [k \in 1..Len(files) |->
                                                  JoinUnder(item.name, files[k])]]]

\* Small graphs of two directories.  Directory 0 holds a file, an optional
\* dangling link, and links x and y; directory 1 holds a file and links x
\* and y.  A link leads to directory 0, to directory 1 or nowhere (it is
\* not there), so links may lead back to an ancestor or to the directory
\* itself.  Directory 1 may be unreadable.
WalkFS(x0, y0, x1, y1, dangling, readable) ==
    LET Link(name, target) ==
            IF target = -1 THEN <<>> ELSE <<Dir(<<name>>, target)>>
    IN (0 :> Listing(Link("x", x0) \o <<File(<<"a">> \o Node, 21)>>
                         \o (IF dangling THEN <<Broken(<<"gone">>)>> ELSE <<>>)
                         \o Link("y", y0)))
        @@ (1 :> [ok |-> readable,
                  items |-> <<File(<<"b">> \o Node, 22)>> \o Link("x", x1)
                                \o Link("y", y1)])

WalkFSs ==
    {WalkFS(x0, y0, x1, y1, dangling, readable) :
        x0 \in {-1, 0, 1}, y0 \in {-1, 1}, x1 \in {-1, 0}, y1 \in {-1, 1},
        dangling \in BOOLEAN, readable \in BOOLEAN}

InitWalk ==
    /\ fs \in WalkFSs
    /\ arg \in [dir : {0, 1, AbsentDir}, maxDepth : 0..MaxWalkDepth,
                stack : {<<>>}, reads : {{}}]
    /\ pc = "call"
    /\ ret = <<>>
    /\ cfg = <<>> /\ out = <<>> /\ dirs = {} /\ copied = <<>>
    /\ binaryResult = [external |-> <<>>, copiedFiles |-> <<>>]
    /\ wasmExternals = <<>> /\ assetExternals = <<>>
    /\ contents = NoLoad /\ loadResult = Null

WalkUnchanged ==
    UNCHANGED <<cfg, fs, out, dirs, copied, binaryResult, wasmExternals,
                assetExternals, contents, loadResult>>

\* getAllFiles(dir, maxDepth) is called.
EnterStart ==
    /\ pc = "call"
    /\ LET e == Enter(fs, arg.dir, arg.maxDepth, 0) IN
       IF e.kind = "frame"
       THEN /\ arg' = [arg EXCEPT !.stack = <<e.frame>>, !.reads = e.reads]
            /\ pc' = "walk" /\ ret' = ret
       ELSE /\ arg' = [arg EXCEPT !.reads = e.reads]
            /\ pc' = "done" /\ ret' = <<>>
    /\ WalkUnchanged

\* stat.isFile(): the file's relative path is pushed.
ScanFile ==
    /\ pc = "walk" /\ AtItem /\ Item.kind = "file"
    /\ arg' = [arg EXCEPT !.stack =
                   WithTop([Top EXCEPT !.i = @ + 1,
                                       !.files = Append(@, Item.name)])]
    /\ UNCHANGED <<pc, ret>>
    /\ WalkUnchanged

\* stat.isDirectory(): the recursive call, or nothing at the depth bound.
ScanDirectory ==
    /\ pc = "walk" /\ AtItem /\ Item.kind = "dir"
    /\ LET v == Visit(fs, Item, arg.maxDepth, Top.depth) IN
       arg' = [arg EXCEPT
                  !.reads = @ \cup v.reads,
                  !.stack = IF v.kind = "frame"
                            THEN Append(arg.stack, v.frame)
                            ELSE WithTop([Top EXCEPT !.i = @ + 1])]
    /\ UNCHANGED <<pc, ret>>
    /\ WalkUnchanged

\* The loop has ended, or statSync threw and the catch ended it: the call
\* returns its files.
ReturnFiles ==
    /\ pc = "walk"
    /\ IF AtItem THEN Item.kind = "broken" ELSE TRUE
    /\ arg' = [arg EXCEPT !.stack = Returned(Top.files)]
    /\ IF Len(arg.stack) = 1
       THEN pc' = "done" /\ ret' = Top.files
       ELSE UNCHANGED <<pc, ret>>
    /\ WalkUnchanged

NextWalk ==
    \/ EnterStart
    \/ ScanFile
    \/ ScanDirectory
    \/ ReturnFiles

SpecWalk == InitWalk /\ [][NextWalk]_vars

\* The call is run to its end: a step that can be taken is taken.
SpecWalkFair == SpecWalk /\ WF_vars(NextWalk)

\* The walk's result is the one of getAllFiles computed in one piece.
WalkAgrees ==
    pc = "done" => ret = getAllFiles(fs, arg.dir, arg.maxDepth, 0)

----------------------------------------------------------------------------
(* Properties of the walk *)

\* A link of the graph leads back to a directory on the way to it.
HasCycle(f) ==
    \/ \E item \in Range(f[0].items) : item.kind = "dir" /\ item.ref = 0
    \/ \E item \in Range(f[1].items) : item.kind = "dir" /\ item.ref \in {0, 1}

\* C24: getAllFiles ends on every directory graph, graphs with link cycles
\* included; it never reads a directory nested deeper than maxDepth below
\* the start directory; and it returns the empty sequence when the start
\* directory is absent or unreadable.
C24_WalkTerminatesWithinDepth ==
    /\ [](/\ \A r \in arg.reads : r.depth <= arg.maxDepth
          /\ \A k \in 1..Len(arg.stack) : arg.stack[k].depth <= arg.maxDepth
          /\ (pc = "done" /\ (~existsSync(fs, arg.dir) \/ ~fs[arg.dir].ok))
             => ret = <<>>)
    /\ <>(pc = "done")

\* A walk of a graph with a cycle has ended after reading a directory at
\* depth maxDepth and returning files from there.
C24_Witness ==
    /\ pc = "done"
    /\ HasCycle(fs) /\ arg.dir = 0 /\ arg.maxDepth = MaxWalkDepth
    /\ \E r \in arg.reads : r.depth = arg.maxDepth
    /\ Len(ret) > MaxWalkDepth

\* C25: an entry statSync fails on is passed over, and every regular file
\* of the same directory, listed before the entry or after it, is among
\* the files returned.
C25_UnreadableEntrySkipped ==
    pc = "done"
    => \A item \in Range(fs[0].items) :
           item.kind = "file" => item.name \in Range(ret)

----------------------------------------------------------------------------
(* cli.ts: the build command's options and buildConfig *)

\* The defaults the build command declares for the strategy options and
\* for --asset-extensions.
BinaryStrategyDefault == Some("external")
WasmStrategyDefault == Some("copy")
AssetStrategyDefault == Some("copy")
AssetExtensionsDefault == Some(DefaultExtensions)

\* The options object the command's action gets: a flag's value when the
\* flag is on the command line, else the option's declared default (none
\* for the package lists and the output directories).
ParseOptions(flags) ==
    [binaryStrategy |-> OrDefault(flags.binaryStrategy, BinaryStrategyDefault),
     wasmStrategy |-> OrDefault(flags.wasmStrategy, WasmStrategyDefault),
     assetStrategy |-> OrDefault(flags.assetStrategy, AssetStrategyDefault),
     assetExtensions |-> OrDefault(flags.assetExtensions, AssetExtensionsDefault),
     packages |-> flags.packages,
     outputDir |-> flags.outputDir]

\* getPreset(name).config, as far as the categories go: every preset sets
\* binaryPackages to {strategy: 'copy'} and no other category; an unknown
\* name has no preset.
PresetNames == {"nestjs", "express", "koa", "fastify", "generic"}

getPreset(name) ==
    IF name \in PresetNames
    THEN Some([binaryPackages |-> Category("copy", Undefined, <<>>, Undefined,
                                           Undefined),
               wasmPackages |-> Undefined,
               assetPackages |-> Undefined])
    ELSE Undefined

\* mergeConfig on the categories and the preset name: the CLI configuration
\* sets no category, so the file's are kept; no file gives the CLI's.
mergeConfig(fileConfig, cliConfig) ==
    IF fileConfig = Undefined THEN cliConfig
    ELSE [fileConfig[1] EXCEPT
             !.preset = IF cliConfig.preset # Undefined THEN cliConfig.preset
                        ELSE @]

\* config = { ...presetConfig.config, ...config }: a category the merged
\* configuration has replaces the preset's as a whole.
ApplyPreset(config, presetConfig) ==
    [config EXCEPT
        !.binaryPackages = IF @ = Undefined THEN presetConfig.binaryPackages ELSE @,
        !.wasmPackages = IF @ = Undefined THEN presetConfig.wasmPackages ELSE @,
        !.assetPackages = IF @ = Undefined THEN presetConfig.assetPackages ELSE @]

\* One of buildConfig's blocks "Handle ... packages configuration": when an
\* option of the category is set, the category is created if missing and
\* the options that are set are written into it.
SetCategory(cat, strategy, packages, dir, extensions) ==
    IF strategy = Undefined /\ packages = Undefined /\ dir = Undefined
           /\ extensions = Undefined
    THEN cat
    ELSE LET base == IF cat = Undefined
                     THEN Category("undefined", Undefined, <<>>, Undefined,
                                   Undefined)
                     ELSE cat
         IN Some([base[1] EXCEPT
                     !.strategy = IF strategy # Undefined THEN strategy[1] ELSE @,
                     !.packages = IF packages # Undefined THEN packages ELSE @,
                     !.outputDir = IF dir # Undefined THEN dir[1] ELSE @,
                     !.extensions = IF extensions # Undefined THEN extensions
                                    ELSE @])

\* buildConfig: the file's configuration merged with the CLI's, the preset
\* under it, then the category options written in.  detected is
\* detectFramework()'s answer.
buildConfig(options, fileConfig, detected) ==
    LET cliConfig == [binaryPackages |-> Undefined, wasmPackages |-> Undefined,
                      assetPackages |-> Undefined, preset |-> Undefined]
        merged == mergeConfig(fileConfig, cliConfig)
        preset == IF merged.preset # Undefined THEN merged.preset[1]
                  ELSE IF detected # Undefined THEN detected[1]
                  ELSE "generic"
        presetConfig == getPreset(preset)
        config == IF presetConfig # Undefined
                  THEN ApplyPreset(merged, presetConfig[1]) ELSE merged
    IN [binaryPackages |-> SetCategory(config.binaryPackages,
                                       options.binaryStrategy, options.packages,
                                       options.outputDir, Undefined),
        wasmPackages |-> SetCategory(config.wasmPackages, options.wasmStrategy,
                                     options.packages, options.outputDir,
                                     Undefined),
        assetPackages |-> SetCategory(config.assetPackages,
                                      options.assetStrategy, options.packages,
                                      options.outputDir, options.assetExtensions)]

\* The command lines: each strategy flag left out or given; the package
\* lists and output directories left out, or given alike for the three
\* categories.
CliFlags ==
    [binaryStrategy : {Undefined, Some("copy"), Some("ignore")},
     wasmStrategy : {Undefined, Some("external"), Some("inline")},
     assetStrategy : {Undefined, Some("external")},
     assetExtensions : {Undefined},
     packages : {Undefined, Some(<<Alpha>>)},
     outputDir : {Undefined, Some(<<"out">>)}]

\* The configuration files: none, or one that sets each category or leaves
\* it out, and names a preset or does not.
FileConfigs ==
    LET Cat(choice) ==
            IF choice = "absent" THEN Undefined
            ELSE Category(choice, Undefined, <<>>, Undefined, Undefined)
    IN {Undefined} \cup
       {Some([binaryPackages |-> Cat(b), wasmPackages |-> Cat(w),
              assetPackages |-> Cat(a), preset |-> preset]) :
           b \in {"absent", "copy", "ignore"},
           w \in {"absent", "external"},
           a \in {"absent", "external", "undefined"},
           preset \in {Undefined, Some("express"), Some("mystery")}}

InitCli ==
    /\ arg \in [flags : CliFlags, fileConfig : FileConfigs,
                detected : {Undefined, Some("koa")}]
    /\ pc = "cli"
    /\ cfg = <<>> /\ ret = <<>>
    /\ fs = EmptyFS
    /\ out = <<>> /\ dirs = {} /\ copied = <<>>
    /\ binaryResult = [external |-> <<>>, copiedFiles |-> <<>>]
    /\ wasmExternals = <<>> /\ assetExternals = <<>>
    /\ contents = NoLoad /\ loadResult = Null

\* The build command's action: the options are parsed and buildConfig
\* returns the configuration the bundler is constructed with.
CallBuildConfig ==
    /\ pc = "cli"
    /\ cfg' = buildConfig(ParseOptions(arg.flags), arg.fileConfig, arg.detected)
    /\ pc' = "configured"
    /\ UNCHANGED <<fs, out, dirs, copied, binaryResult, wasmExternals,
                   assetExternals, contents, loadResult, arg, ret>>

NextCli == CallBuildConfig

SpecCli == InitCli /\ [][NextCli]_vars

----------------------------------------------------------------------------
(* Properties of the configuration the CLI builds *)

\* The preset buildConfig applies, if any.
AppliedPreset ==
    getPreset(IF arg.fileConfig # Undefined /\ arg.fileConfig[1].preset # Undefined
              THEN arg.fileConfig[1].preset[1]
              ELSE IF arg.detected # Undefined THEN arg.detected[1]
              ELSE "generic")

\* The strategy the configuration file sets for a category, else the one
\* the preset sets, else none.
ConfiguredStrategy(category) ==
    IF arg.fileConfig # Undefined /\ arg.fileConfig[1][category] # Undefined
    THEN Strategy(arg.fileConfig[1][category])
    ELSE IF AppliedPreset # Undefined
    THEN Strategy(AppliedPreset[1][category])
    ELSE "undefined"

\* The strategy flag of a category.
StrategyFlag(category) ==
    IF category = "binaryPackages" THEN "binaryStrategy"
    ELSE IF category = "wasmPackages" THEN "wasmStrategy"
    ELSE "assetStrategy"

\* C26: when a category's strategy flag is not on the command line, the
\* final configuration keeps the strategy the configuration file or the
\* preset sets for the category.
C26_FileStrategyKept ==
    pc = "configured"
    => \A category \in {"binaryPackages", "wasmPackages", "assetPackages"} :
           (/\ arg.flags[StrategyFlag(category)] = Undefined
            /\ ConfiguredStrategy(category) # "undefined")
           => Strategy(cfg[category]) = ConfiguredStrategy(category)

----------------------------------------------------------------------------
(* Properties of the rewriter applied again *)

\* The running state of the hook on a text nothing has changed yet.
Fresh(text) == [text |-> text, hasChanges |-> FALSE]

\* How many of the three categories' rules change the text they are given
\* when the hook runs on text.
RulesThatChange(c, text) ==
    LET r1 == WasmRule(c, Fresh(text))
        r2 == BinaryRule(c, r1)
        r3 == AssetRule(c, r2)
    IN (IF r1.text # text THEN 1 ELSE 0)
           + (IF r2.text # r1.text THEN 1 ELSE 0)
           + (IF r3.text # r2.text THEN 1 ELSE 0)

\* C27: the hook applied to its own output changes nothing, and on a
\* source of one literal at most one category's rule rewrites the literal,
\* whatever the output directories and the asset extensions are.
C27_RewriteIdempotent ==
    pc = "loaded"
    => LET once == LoadedText(contents.text, loadResult)
       IN /\ Transform(cfg, once).text = once
          /\ ~Includes(contents.text, "+") => RulesThatChange(cfg, contents.text) <= 1

----------------------------------------------------------------------------
(* Properties of scoped packages *)

ScopedName == ScopeDir \o <<Slash>> \o Name1

ScopedFile == <<"file">> \o Wasm

\* C28: with the Wasm strategy copy, the literal
\* '../node_modules/@scope/name/file.wasm' is rewritten to
\* './<wasmOutputDir>/@scope/name/file.wasm', which is where copyWasmFiles
\* stores file.wasm of the package @scope/name.
C28_ScopedPackageRewritten ==
    (/\ pc = "loaded"
     /\ Strategy(cfg.wasmPackages) = "copy"
     /\ contents.text = Literal(SQ, <<Dot, Dot, Slash, "node_modules", Slash>>
                                        \o ScopedName \o <<Slash>> \o ScopedFile))
    => LET dir == OrDefault(cfg.wasmPackages[1].outputDir, DefaultWasmOutputDir)
       IN /\ Loaded = Literal(SQ, <<Dot, Slash>> \o dir \o <<Slash>> \o ScopedName
                                      \o <<Slash>> \o ScopedFile)
          /\ Join(<<outputDir, SubSeq(Loaded, 2, Len(Loaded) - 1)>>)
                 = AssetTargetPath(dir, ScopedName, ScopedFile, TRUE)

----------------------------------------------------------------------------
(* The rewriter the engine runs: the hooks of the plugins handed to it *)

\* The onLoad hook of createWasmPathReplacerPlugin (plugins.ts): the Wasm
\* rule alone.
wasmPathReplacerOnLoad(c, text) ==
    ApplyRule(Fresh(text), WasmTail,
              OrDefault(c.wasmPackages[1].outputDir, DefaultWasmOutputDir)).text

\* The text of a source after the hooks of the plugins in the list.
InstalledRewrite(plugins, c, text) ==
    IF Includes(plugins, "asset-path-replacer") THEN Transform(c, text).text
    ELSE IF Includes(plugins, "wasm-path-replacer")
    THEN wasmPathReplacerOnLoad(c, text)
    ELSE text

IsRewriter(plugin) == plugin \in {"asset-path-replacer", "wasm-path-replacer"}

\* C29: when a handler copied files of a category, under copy or under
\* inline, the plugins handed to the engine hold the path rewriter, before
\* every plugin of the user, and the rewriter rewrites the literals that
\* name the copied files.
C29_RewriterInstalledForCopies ==
    (pc = "built" /\ copied # <<>>)
    => /\ \E k \in 1..Len(ret.plugins) :
              /\ IsRewriter(ret.plugins[k])
              /\ \A j \in 1..Len(ret.plugins) :
                     ret.plugins[j] = "user-plugin" => k < j
       /\ \A i \in 1..Len(copied) :
              LET literal == ModuleLiteral(SQ, copied[i].pkg, copied[i].file)
              IN InstalledRewrite(ret.plugins, cfg, literal) # literal

----------------------------------------------------------------------------
(* plugins/esm-compatibility.ts: the banner of an ESM bundle.              *)
(*                                                                         *)
(* A banner is a sequence of atoms in which every identifier is one atom,  *)
(* so a word boundary lies on each side of an identifier atom.             *)

\* import { fileURLToPath } from 'url';
ImportFileURLToPath ==
    <<"import", " ", "{", " ", "fileURLToPath", " ", "}", " ", "from", " ",
      SQ, "url", SQ, ";">>

\* import { dirname } from 'path';
ImportDirname ==
    <<"import", " ", "{", " ", "dirname", " ", "}", " ", "from", " ", SQ,
      "path", SQ, ";">>

\* const __filename = fileURLToPath(import.meta.url);
ConstFilename ==
    <<"const", " ", "__filename", " ", "=", " ", "fileURLToPath", "(",
      "import", Dot, "meta", Dot, "url", ")", ";">>

\* const __dirname = dirname(__filename);
ConstDirname ==
    <<"const", " ", "__dirname", " ", "=", " ", "dirname", "(", "__filename",
      ")", ";">>

\* /createRequire\s*\(/.test(banner)
TestCreateRequireCall(banner) ==
    \E i \in 1..Len(banner) :
        /\ banner[i] = "createRequire"
        /\ \E j \in (i + 1)..Len(banner) :
               banner[j] = "(" /\ \A k \in (i + 1)..(j - 1) : banner[k] = " "

\* /<word>\b/.test(banner) and /\b<word>\b/.test(banner)
TestWord(banner, word) == Includes(banner, word)

\* The plugin's setup on the build's initial options [format, banner]:
\* the options as it leaves them.
setup(options) ==
    IF options.format # Some("esm") THEN options
    ELSE LET existingBanner == IF options.banner = Undefined THEN <<>>
                               ELSE options.banner[1]
             needsFilename == ~TestWord(existingBanner, "__filename")
             needsDirname == ~TestWord(existingBanner, "__dirname")
             parts ==
                 (IF ~TestCreateRequireCall(existingBanner)
                  THEN <<ImportCreateRequire, ConstRequire>> ELSE <<>>)
                 \o (IF needsFilename \/ needsDirname
                     THEN (IF ~TestWord(existingBanner, "fileURLToPath")
                           THEN <<ImportFileURLToPath>> ELSE <<>>)
                          \o (IF ~TestWord(existingBanner, "dirname")
                              THEN <<ImportDirname>> ELSE <<>>)
                          \o (IF needsFilename THEN <<ConstFilename>> ELSE <<>>)
                          \o (IF needsDirname
                              THEN (IF ~needsFilename
                                       /\ ~TestWord(existingBanner, "__filename")
                                    THEN <<ConstFilename>> ELSE <<>>)
                                   \o <<ConstDirname>>
                              ELSE <<>>)
                     ELSE <<>>)
         IN IF Len(parts) > 0
            THEN [options EXCEPT !.banner = Some(Concat(parts) \o existingBanner)]
            ELSE options

\* A statement of the user's own: // build 1
UserComment == <<Slash, Slash, " ", "build", " ", "1", ";">>

\* The statements a banner the user configured may hold, in this order.
BannerStatements ==
    <<UserComment, ImportCreateRequire, ConstRequire, ImportFileURLToPath,
      ImportDirname, ConstFilename, ConstDirname>>

\* The statements of BannerStatements picked by the set of indexes.
RECURSIVE Pick(_, _)
Pick(picked, i) ==
    IF i > Len(BannerStatements) THEN <<>>
    ELSE (IF i \in picked THEN BannerStatements[i] ELSE <<>>)
             \o Pick(picked, i + 1)

BannerOptions ==
    [format : {Undefined, Some("cjs"), Some("esm")},
     banner : {Undefined}
                  \cup {Some(Pick(picked, 1)) :
                            picked \in SUBSET (1..Len(BannerStatements))}]

InitBanner ==
    /\ arg \in BannerOptions
    /\ pc = "setup"
    /\ ret = <<>>
    /\ cfg = <<>> /\ fs = EmptyFS
    /\ out = <<>> /\ dirs = {} /\ copied = <<>>
    /\ binaryResult = [external |-> <<>>, copiedFiles |-> <<>>]
    /\ wasmExternals = <<>> /\ assetExternals = <<>>
    /\ contents = NoLoad /\ loadResult = Null

\* The engine calls the plugin's setup with the build's initial options.
Setup ==
    /\ pc = "setup"
    /\ ret' = setup(arg)
    /\ pc' = "done"
    /\ UNCHANGED <<cfg, fs, out, dirs, copied, binaryResult, wasmExternals,
                   assetExternals, contents, loadResult, arg>>

NextBanner == Setup

SpecBanner == InitBanner /\ [][NextBanner]_vars

----------------------------------------------------------------------------
(* Properties of the ESM banner *)

\* Where the atoms of part start in text.
Positions(text, part) ==
    {i \in 1..(Len(text) - Len(part) + 1) :
        SubSeq(text, i, i + Len(part) - 1) = part}

\* The banner text of options, '' when there is none.
BannerOf(options) ==
    IF options.banner = Undefined THEN <<>> ELSE options.banner[1]

\* What setup put in front of the banner there was.
Added == SubSeq(BannerOf(ret), 1, Len(BannerOf(ret)) - Len(BannerOf(arg)))

\* The declarations of the polyfills, each by the atoms it starts with.
Declarations ==
    {<<"import", " ", "{", " ", "createRequire">>,
     <<"const", " ", "require", " ">>,
     <<"import", " ", "{", " ", "fileURLToPath">>,
     <<"import", " ", "{", " ", "dirname">>,
     <<"const", " ", "__filename", " ">>,
     <<"const", " ", "__dirname", " ">>}

\* C30: for format esm the banner after setup is the added text followed
\* by the banner there was; the createRequire, __filename and __dirname
\* polyfills are added only when the banner there was does not hold them;
\* no declaration is in the banner twice; an added definition of __dirname
\* has a definition of __filename before it; for another format the
\* options are as they were.
C30_EsmBanner ==
    pc = "done"
    => /\ arg.format # Some("esm") => ret = arg
       /\ arg.format = Some("esm")
          => /\ Len(BannerOf(ret)) >= Len(BannerOf(arg))
             /\ BannerOf(ret) = Added \o BannerOf(arg)
             /\ Positions(Added, ConstRequire) # {}
                    => Positions(BannerOf(arg), ConstRequire) = {}
             /\ Positions(Added, ConstFilename) # {}
                    => Positions(BannerOf(arg), ConstFilename) = {}
             /\ Positions(Added, ConstDirname) # {}
                    => Positions(BannerOf(arg), ConstDirname) = {}
             /\ \A d \in Declarations :
                    Cardinality(Positions(BannerOf(ret), d)) <= 1
             /\ \A i \in Positions(Added, ConstDirname) :
                    \E j \in Positions(BannerOf(ret), ConstFilename) : j < i

====
